---- MODULE Spec2Model ----
(***************************************************************************)
(* Model of the metadata resolution engine of ModernRetroRomManager:       *)
(*   - ScraperManager (src-tauri/src/scraper/manager.rs): the provider     *)
(*     registry, its persisted configuration (src-tauri/src/settings.rs)   *)
(*     and the search / lookup_by_hash / scrape orchestration;             *)
(*   - the Pegasus metadata codec (src-tauri/src/scraper/pegasus.rs):      *)
(*     parse_pegasus_content, export_to_pegasus and write_pegasus_file.    *)
(***************************************************************************)
EXTENDS Integers, Sequences, FiniteSets, TLC

(***************************************************************************)
(* Bounds of the model.                                                    *)
(***************************************************************************)
\* number of registry-mutating calls explored in one behaviour
MaxConfigOps == 3
\* priorities a caller passes to set_priority / register_with_config: 1..MaxPriority
MaxPriority == 2
\* confidence levels a provider reports: 1..MaxConfidence
MaxConfidence == 2
\* number of write_pegasus_file calls explored in one behaviour
MaxWrites == 2

(***************************************************************************)
(* Program constants.                                                      *)
(***************************************************************************)
\* ProviderConfig::default().priority
DefaultPriority == 100
\* u32::default(), the priority of ScraperConfig::default()
ZeroPriority == 0

(***************************************************************************)
(* Providers.  A provider type has a fixed id and a fixed capability set   *)
(* (ScraperProvider::id / ::capabilities).                                 *)
(***************************************************************************)
ProviderIds == {"p1", "p2", "p3"}

ProviderCapability == {"Search", "HashLookup", "Metadata", "Media"}

capabilities(p) ==
    CASE p = "p1" -> {"Search", "HashLookup", "Metadata", "Media"}
      [] p = "p2" -> {"HashLookup", "Metadata", "Media"}
      [] OTHER    -> {"Search", "HashLookup", "Metadata"}

has(p, cap) == cap \in capabilities(p)

(***************************************************************************)
(* Values.                                                                 *)
(***************************************************************************)
None == "None"

NoConfig == [absent |-> TRUE]

ProviderConfig(e, pr) == [enabled |-> e, priority |-> pr]

ProviderConfigDefault == ProviderConfig(TRUE, DefaultPriority)

\* ScraperConfig (settings.rs) restricted to the fields the manager uses
ScraperConfig(e, pr) == [enabled |-> e, priority |-> pr]

\* #[derive(Default)] on ScraperConfig: enabled = false, priority = 0
ScraperConfigDefault == ScraperConfig(FALSE, ZeroPriority)

Priorities == 1..MaxPriority

SearchResult(p, sid, c) == [provider |-> p, source_id |-> sid, confidence |-> c]

ScalarFields == {"name", "english_name", "description", "release_date",
                 "developer", "publisher", "players", "rating"}

\* the empty value of a scalar field: "" for the String name, None for an Option
EmptyOf(f) == IF f = "name" THEN "" ELSE None

GameMetadataDefault ==
    [name |-> "", english_name |-> None, description |-> None,
     release_date |-> None, developer |-> None, publisher |-> None,
     genres |-> <<>>, players |-> None, rating |-> None]

\* the metadata a provider p offers: the fields of `offered` carry p's value
MetadataOf(p, offered, gs) ==
    [name         |-> IF "name" \in offered THEN p ELSE "",
     english_name |-> IF "english_name" \in offered THEN p ELSE None,
     description  |-> IF "description" \in offered THEN p ELSE None,
     release_date |-> IF "release_date" \in offered THEN p ELSE None,
     developer    |-> IF "developer" \in offered THEN p ELSE None,
     publisher    |-> IF "publisher" \in offered THEN p ELSE None,
     genres       |-> gs,
     players      |-> IF "players" \in offered THEN p ELSE None,
     rating       |-> IF "rating" \in offered THEN p ELSE None]

MediaAsset(p, u) == [provider |-> p, url |-> u]

Ok(v) == [ok |-> TRUE, value |-> v]
Err(e) == [ok |-> FALSE, error |-> e]
NoReply == [pending |-> TRUE]
IsOk(r) == "ok" \in DOMAIN r /\ r.ok

\* what a provider may answer to search
SearchReplies(p) ==
    {Err("provider")} \cup
    {Ok(<<>>)} \cup
    {Ok(<<SearchResult(p, "a", c)>>) : c \in 1..MaxConfidence} \cup
    {Ok(<<SearchResult(p, "b", MaxConfidence), SearchResult(p, "a", 1),
          SearchResult(p, "a", 1)>>)}

\* what a provider may answer to lookup_by_hash
LookupReplies(p) ==
    {Err("provider"), Ok(<<>>), Ok(<<SearchResult(p, "a", MaxConfidence)>>)}

\* the scalar fields provider p has data for (each field is known to two providers
\* at least, developer to all of them) and the genres it lists
Offers(p) ==
    CASE p = "p1" -> {"name", "english_name", "description", "developer", "players"}
      [] p = "p2" -> {"name", "english_name", "release_date", "developer", "publisher",
                      "rating"}
      [] OTHER    -> {"description", "release_date", "developer", "publisher", "players",
                      "rating"}

Genres(p) ==
    CASE p = "p1" -> <<>>
      [] p = "p2" -> <<"g1", "g2">>
      [] OTHER    -> <<"g2", "g3", "g2">>

\* what a provider may answer to get_metadata
MetadataReplies(p) ==
    {Err("provider"), Ok(MetadataOf(p, Offers(p), Genres(p)))}

\* what a provider may answer to get_media
MediaReplies(p) ==
    {Err("provider"), Ok(<<MediaAsset(p, "u1"), MediaAsset(p, "u2"), MediaAsset(p, "u1")>>)}

VARIABLES
    providers,    \* ScraperManager.providers: the registered ids
    configs,      \* ScraperManager.configs: id -> ProviderConfig
    settings,     \* AppSettings.scrapers as persisted: id -> ScraperConfig
    nconf,        \* number of registry-mutating calls made
    disabledBy,   \* history: ids disabled by set_enabled(id, false) and not re-enabled
    kind,         \* the orchestrator call in flight
    pc,           \* its position
    hasHash,      \* query.hash.is_some()
    queue,        \* the provider list being iterated / the futures of join_all
    pending,      \* futures not completed yet
    results,      \* id -> completed result of the current fan-out
    tried,        \* lookup_by_hash: <<provider, reply>> pairs in call order
    found,        \* scrape: the list search returned
    best_match,   \* scrape: the chosen SearchResult, until its source_id is taken
    source_id,    \* scrape: best_match.source_id as cloned into the futures
    matchedBy,    \* history: "hash" / "search" when scrape has a best match from
                  \* lookup_by_hash / search, "nothing" when both found none
    merged,       \* merge_metadata: the accumulator
    sources,      \* merge_metadata: contributing provider ids
    midx,         \* merge_metadata: next index into the results
    invoked,      \* history: <<provider, method>> calls made by the call in flight
    ret,          \* the value returned to the caller
    exists,       \* path.exists() of the metadata file
    content,      \* the text of the metadata file
    calls,        \* history: the write_pegasus_file calls made, in order
    before,       \* history: the file as the last call found it
    exported,     \* the games the last call handed to export_to_pegasus
    rwlock,       \* ScraperState.manager: the tasks holding the RwLock
    task,         \* per command task: the command, its position, what it saw
    raw_name,     \* matcher: the name last handed to normalize_game_name
    normalized,   \* matcher: what normalize_game_name returned for it
    cn_query,     \* local_cn: the query handed to smart_cn_similarity
    cn_target,    \* local_cn: the candidate name handed to it
    final_score,  \* local_cn: the score it returned
    rank_query,   \* matcher: the query handed to calculate_confidence
    rank_result,  \* matcher: the search result handed to it
    rank_confidence, \* matcher: the confidence it returned
    parse_input,  \* pegasus: the text handed to parse_pegasus_content
    parse_result, \* pegasus: the PegasusMetadata it returned
    settings_json, \* settings.rs: the AppSettings written to settings.json
    SETTINGS,     \* settings.rs: the cached AppSettings behind the static RwLock
    updater,      \* per thread: its update_setting call and the position in it
    saves         \* history: the save_metadata_pegasus calls made, in order

regVars == <<providers, configs, settings, nconf, disabledBy>>
opVars == <<kind, pc, hasHash, queue, pending, results, tried, found, best_match, source_id,
            matchedBy, merged, sources, midx, invoked, ret>>
parseVars == <<parse_input, parse_result>>
saveVars == <<saves>>
pegVars == <<exists, content, calls, before, exported, parseVars, saveVars>>
setVars == <<settings_json, SETTINGS, updater>>
lockVars == <<rwlock, task, setVars>>
simVars == <<cn_query, cn_target, final_score>>
rankVars == <<rank_query, rank_result, rank_confidence>>
matchVars == <<raw_name, normalized, simVars, rankVars>>
vars == <<providers, configs, settings, nconf, disabledBy, kind, pc, hasHash, queue,
          pending, results, tried, found, best_match, source_id, matchedBy, merged, sources,
          midx, invoked, ret, exists, content, calls, before, exported, rwlock, task,
          raw_name, normalized,
          cn_query, cn_target, final_score,
          rank_query, rank_result, rank_confidence,
          parse_input, parse_result,
          settings_json, SETTINGS, updater,
          saves>>

NoResult == [absent |-> TRUE]
NoRet == [absent |-> TRUE]
\* no text parsed yet
NoParse == [absent |-> TRUE]
\* no query handed to the matcher yet
NoQuery == [absent |-> TRUE]
\* no score computed yet
NoScore == [absent |-> TRUE]

IdleOp ==
    /\ kind = "none"
    /\ pc = "idle"
    /\ hasHash = FALSE
    /\ queue = <<>>
    /\ pending = {}
    /\ results = [p \in ProviderIds |-> [pending |-> TRUE]]
    /\ tried = <<>>
    /\ found = <<>>
    /\ best_match = NoResult
    /\ source_id = None
    /\ matchedBy = "none"
    /\ merged = GameMetadataDefault
    /\ sources = <<>>
    /\ midx = 0
    /\ invoked = {}
    /\ ret = NoRet

\* the tasks that run Tauri commands on the shared ScraperState
Tasks == {"t1", "t2", "t3"}

\* a task that runs no command
IdleTask == [cmd |-> "none", pc |-> "idle", seen |-> <<>>, mark |-> 0]

\* ScraperManager::new() with an empty settings.json; no metadata file yet;
\* ScraperState::new(): nobody holds the lock
\* impl Default for AppSettings (theme, language and the scrapers map)
AppSettingsDefault ==
    [theme |-> "dark", language |-> "zh", scrapers |-> [p \in ProviderIds |-> NoConfig]]

\* the thread of the scraper commands, which call the manager's setters under
\* its write lock, and the thread of the config commands
Updaters == {"manager", "config"}

IdleUpdater == [pc |-> "idle", op |-> [name |-> "none"], settings |-> AppSettingsDefault]

IdleUpdaters == [t \in Updaters |-> IdleUpdater]

Init ==
    /\ providers = {}
    /\ configs = [p \in ProviderIds |-> NoConfig]
    /\ settings = [p \in ProviderIds |-> NoConfig]
    /\ nconf = 0
    /\ disabledBy = {}
    /\ IdleOp
    /\ exists = FALSE
    /\ content = <<>>
    /\ calls = <<>>
    /\ before = [exists |-> FALSE, content |-> <<>>]
    /\ exported = <<>>
    /\ rwlock = [readers |-> {}, writer |-> {}]
    /\ task = [t \in Tasks |-> IdleTask]
    /\ raw_name = <<>>
    /\ normalized = <<>>
    /\ cn_query = <<>>
    /\ cn_target = <<>>
    /\ final_score = NoScore
    /\ rank_query = NoQuery
    /\ rank_result = NoResult
    /\ rank_confidence = NoScore
    /\ parse_input = <<>>
    /\ parse_result = NoParse
    /\ settings_json = AppSettingsDefault
    /\ SETTINGS = AppSettingsDefault
    /\ updater = IdleUpdaters
    /\ saves = <<>>

(***************************************************************************)
(* Registry operations (they take &mut self: no call is in flight).        *)
(***************************************************************************)
CanConfigure == pc = "idle" /\ nconf < MaxConfigOps

\* register without the lookup of the persisted enabled flag
register_default(id) ==
    /\ pc = "idle" /\ nconf < MaxConfigOps
    /\ providers' = providers \cup {id}
    /\ configs' = [configs EXCEPT ![id] = ProviderConfigDefault]
    /\ nconf' = nconf + 1
    /\ UNCHANGED <<settings, disabledBy>>
    /\ UNCHANGED <<opVars, pegVars, lockVars, matchVars>>

register(id) ==
    /\ CanConfigure
    /\ providers' = providers \cup {id}
    /\ configs' = [configs EXCEPT ![id] =
                      IF settings[id] # NoConfig
                      THEN ProviderConfig(settings[id].enabled, DefaultPriority)
                      ELSE ProviderConfigDefault]
    /\ nconf' = nconf + 1
    /\ UNCHANGED <<settings, disabledBy>>
    /\ UNCHANGED <<opVars, pegVars, lockVars, matchVars>>

register_with_config(id, config) ==
    /\ CanConfigure
    /\ providers' = providers \cup {id}
    /\ configs' = [configs EXCEPT ![id] = config]
    /\ nconf' = nconf + 1
    /\ disabledBy' = disabledBy \ {id}
    /\ UNCHANGED settings
    /\ UNCHANGED <<opVars, pegVars, lockVars, matchVars>>

unregister(id) ==
    /\ CanConfigure
    /\ providers' = providers \ {id}
    /\ configs' = [configs EXCEPT ![id] = NoConfig]
    /\ nconf' = nconf + 1
    /\ UNCHANGED <<settings, disabledBy>>
    /\ UNCHANGED <<opVars, pegVars, lockVars, matchVars>>

\* settings.scrapers.entry(id).or_default()
EntryOrDefault(id) == IF settings[id] # NoConfig THEN settings[id] ELSE ScraperConfigDefault

set_enabled(id, enabled) ==
    /\ CanConfigure
    /\ configs' = IF configs[id] # NoConfig
                  THEN [configs EXCEPT ![id].enabled = enabled]
                  ELSE configs
    /\ settings' = [settings EXCEPT ![id] = [EntryOrDefault(id) EXCEPT !.enabled = enabled]]
    /\ nconf' = nconf + 1
    /\ disabledBy' = IF enabled THEN disabledBy \ {id}
                     ELSE IF id \in providers THEN disabledBy \cup {id} ELSE disabledBy
    /\ UNCHANGED providers
    /\ UNCHANGED <<opVars, pegVars, lockVars, matchVars>>

\* set_priority that persists only for a registered id
set_priority_if_registered(id, priority) ==
    /\ CanConfigure
    /\ configs' = IF configs[id] # NoConfig
                  THEN [configs EXCEPT ![id].priority = priority]
                  ELSE configs
    /\ settings' = IF configs[id] # NoConfig
                   THEN [settings EXCEPT ![id] = [EntryOrDefault(id) EXCEPT
                                                     !.priority = priority]]
                   ELSE settings
    /\ nconf' = nconf + 1
    /\ UNCHANGED <<providers, disabledBy>>
    /\ UNCHANGED <<opVars, pegVars, lockVars, matchVars>>

set_priority(id, priority) ==
    /\ CanConfigure
    /\ configs' = IF configs[id] # NoConfig
                  THEN [configs EXCEPT ![id].priority = priority]
                  ELSE configs
    /\ settings' = [settings EXCEPT ![id] = [EntryOrDefault(id) EXCEPT !.priority = priority]]
    /\ nconf' = nconf + 1
    /\ UNCHANGED <<providers, disabledBy>>
    /\ UNCHANGED <<opVars, pegVars, lockVars, matchVars>>

(***************************************************************************)
(* enabled_providers: the enabled providers sorted by priority.  The sort  *)
(* is stable over the HashMap iteration order, which is unspecified: every *)
(* priority-sorted arrangement of the enabled providers is possible.       *)
(***************************************************************************)
IsEnabled(id) == IF configs[id] # NoConfig THEN configs[id].enabled ELSE TRUE

PriorityOf(id) == IF configs[id] # NoConfig THEN configs[id].priority ELSE DefaultPriority

EnabledSet == {id \in providers : IsEnabled(id)}

\* enabled_providers without the sort by priority
enabled_providers_unsorted ==
    {s \in [1..Cardinality(EnabledSet) -> EnabledSet] :
        \A i, j \in DOMAIN s : i # j => s[i] # s[j]}

enabled_providers ==
    {s \in [1..Cardinality(EnabledSet) -> EnabledSet] :
        /\ \A i, j \in DOMAIN s : i # j => s[i] # s[j]
        /\ \A i, j \in DOMAIN s : i < j => PriorityOf(s[i]) <= PriorityOf(s[j])}

\* .iter().filter(|p| p.capabilities().has(cap))
FilterCap(s, cap) == SelectSeq(s, LAMBDA p : has(p, cap))

Range(s) == {s[i] : i \in DOMAIN s}

Calls(s, method) == {<<s[i], method>> : i \in DOMAIN s}

FreshResults == [p \in ProviderIds |-> NoReply]

(***************************************************************************)
(* search: one future per enabled provider with Search; join_all returns   *)
(* the results in the order of the futures, whatever the completion order. *)
(***************************************************************************)
RECURSIVE FlattenUntilErr(_, _)
\* a collection of the results that ends at the first error
FlattenUntilErr(q, res) ==
    IF q = <<>> THEN <<>>
    ELSE IF IsOk(res[Head(q)]) THEN res[Head(q)].value \o FlattenUntilErr(Tail(q), res)
    ELSE <<>>

RECURSIVE FlattenOk(_, _)
\* results.into_iter().filter_map(|r| r.ok()).flatten().collect()
FlattenOk(q, res) ==
    IF q = <<>> THEN <<>>
    ELSE (IF IsOk(res[Head(q)]) THEN res[Head(q)].value ELSE <<>>) \o FlattenOk(Tail(q), res)

\* the futures of `order` filtered by `cap` are built and join_all is awaited
Dispatch(order, cap, method, phase) ==
    /\ queue' = FilterCap(order, cap)
    /\ pending' = Range(FilterCap(order, cap))
    /\ results' = FreshResults
    /\ invoked' = invoked \cup Calls(FilterCap(order, cap), method)
    /\ pc' = phase

\* a future of the fan-out in `phase` completes with r
Reply(phase, p, r) ==
    /\ pc = phase
    /\ p \in pending
    /\ pending' = pending \ {p}
    /\ results' = [results EXCEPT ![p] = r]
    /\ UNCHANGED <<kind, pc, hasHash, queue, tried, found, best_match, source_id, matchedBy,
                   merged, sources, midx, invoked, ret>>
    /\ UNCHANGED <<regVars, pegVars, lockVars, matchVars>>

StartSearch ==
    /\ pc = "idle"
    /\ kind' = "search"
    /\ \E order \in enabled_providers : Dispatch(order, "Search", "search", "search")
    /\ UNCHANGED <<hasHash, tried, found, best_match, source_id, matchedBy, merged, sources,
                   midx, ret>>
    /\ UNCHANGED <<regVars, pegVars, lockVars, matchVars>>

ReplySearch(p, r) == Reply("search", p, r)

\* the first result instead of the one of maximal confidence
FirstResult(s) == s[1]

\* Iterator::max_by: the last element among the maxima
MaxByConfidence(s) ==
    LET i == CHOOSE i \in DOMAIN s :
                 /\ \A j \in DOMAIN s : s[j].confidence <= s[i].confidence
                 /\ \A j \in DOMAIN s : j > i => s[j].confidence < s[i].confidence
    IN s[i]

\* a join of the search in which an empty result list is not an error for scrape
JoinSearchEmptyOk ==
    /\ pc = "search"
    /\ pending = {}
    /\ IF kind = "search"
       THEN ret' = Ok(FlattenOk(queue, results)) /\ matchedBy' = matchedBy
       ELSE /\ ret' = Ok([metadata |-> GameMetadataDefault, media |-> <<>>, sources |-> <<>>])
            /\ matchedBy' = IF FlattenOk(queue, results) = <<>> THEN "nothing" ELSE "search"
    /\ pc' = "done"
    /\ UNCHANGED <<kind, hasHash, queue, pending, results, tried, found, best_match,
                   source_id, merged, sources, midx, invoked>>
    /\ UNCHANGED <<regVars, pegVars, lockVars, matchVars>>

\* a join of the search that returns once any one future has completed
JoinSearchAny ==
    /\ pc = "search"
    /\ pending # Range(queue) \/ queue = <<>>
    /\ LET flat == FlattenOk(queue, results) IN
         IF kind = "search"
         THEN /\ ret' = Ok(flat)
              /\ pc' = "done"
              /\ UNCHANGED <<found, best_match, matchedBy>>
         ELSE IF flat = <<>>
         THEN /\ ret' = Err("No results found")
              /\ pc' = "done"
              /\ matchedBy' = "nothing"
              /\ UNCHANGED <<found, best_match>>
         ELSE /\ found' = flat
              /\ best_match' = MaxByConfidence(flat)
              /\ matchedBy' = "search"
              /\ pc' = "matched"
              /\ UNCHANGED ret
    /\ UNCHANGED <<kind, hasHash, queue, pending, results, tried, source_id, merged,
                   sources, midx, invoked>>
    /\ UNCHANGED <<regVars, pegVars, lockVars, matchVars>>

\* join_all completes: ScraperManager::search returns; scrape goes on (lines 272-281)
JoinSearch ==
    /\ pc = "search"
    /\ pending = {}
    /\ LET flat == FlattenOk(queue, results) IN
         IF kind = "search"
         THEN /\ ret' = Ok(flat)
              /\ pc' = "done"
              /\ UNCHANGED <<found, best_match, matchedBy>>
         ELSE IF flat = <<>>
         THEN /\ ret' = Err("No results found")
              /\ pc' = "done"
              /\ matchedBy' = "nothing"
              /\ UNCHANGED <<found, best_match>>
         ELSE /\ found' = flat
              /\ best_match' = MaxByConfidence(flat)
              /\ matchedBy' = "search"
              /\ pc' = "matched"
              /\ UNCHANGED ret
    /\ UNCHANGED <<kind, hasHash, queue, pending, results, tried, source_id, merged,
                   sources, midx, invoked>>
    /\ UNCHANGED <<regVars, pegVars, lockVars, matchVars>>

(***************************************************************************)
(* lookup_by_hash: sequential over the enabled providers with HashLookup.  *)
(***************************************************************************)
StartLookup ==
    /\ pc = "idle"
    /\ kind' = "lookup_by_hash"
    /\ hasHash' = TRUE
    /\ \E order \in enabled_providers : queue' = FilterCap(order, "HashLookup")
    /\ pc' = "lookup"
    /\ UNCHANGED <<pending, results, tried, found, best_match, source_id, matchedBy, merged,
                   sources, midx, invoked, ret>>
    /\ UNCHANGED <<regVars, pegVars, lockVars, matchVars>>

\* if let Ok(Some(result)) = ...
IsMatch(r) == IsOk(r) /\ r.value # <<>>

\* one iteration of the for loop: provider.lookup_by_hash(hash, system).await
LookupCall(p, r) ==
    /\ pc = "lookup"
    /\ queue # <<>>
    /\ Head(queue) = p
    /\ invoked' = invoked \cup {<<p, "lookup_by_hash">>}
    /\ tried' = Append(tried, <<p, r>>)
    /\ IF IsMatch(r)
       THEN /\ best_match' = r.value[1]
            /\ queue' = <<>>
            /\ IF kind = "lookup_by_hash"
               THEN ret' = Ok(r.value[1]) /\ pc' = "done" /\ matchedBy' = matchedBy
               ELSE ret' = ret /\ pc' = "matched" /\ matchedBy' = "hash"
       ELSE /\ queue' = Tail(queue)
            /\ UNCHANGED <<best_match, ret, pc, matchedBy>>
    /\ UNCHANGED <<kind, hasHash, pending, results, found, source_id, merged, sources, midx>>
    /\ UNCHANGED <<regVars, pegVars, lockVars, matchVars>>

\* the loop ends without a match: lookup_by_hash returns None; scrape calls search
LookupExhausted ==
    /\ pc = "lookup"
    /\ queue = <<>>
    /\ IF kind = "lookup_by_hash"
       THEN /\ ret' = Ok(NoResult)
            /\ pc' = "done"
            /\ UNCHANGED <<queue, pending, results, invoked, tried>>
       ELSE /\ \E order \in enabled_providers : Dispatch(order, "Search", "search", "search")
            /\ tried' = <<>>
            /\ UNCHANGED ret
    /\ UNCHANGED <<kind, hasHash, found, best_match, source_id, matchedBy, merged, sources,
                   midx>>
    /\ UNCHANGED <<regVars, pegVars, lockVars, matchVars>>

(***************************************************************************)
(* scrape                                                                  *)
(***************************************************************************)
\* a scrape that attempts lookup_by_hash whether or not a hash is given
StartScrapeAlwaysLookup(h) ==
    /\ pc = "idle"
    /\ kind' = "scrape"
    /\ hasHash' = h
    /\ \E order \in enabled_providers : queue' = FilterCap(order, "HashLookup")
    /\ pc' = "lookup"
    /\ UNCHANGED <<pending, results, invoked, tried, found, best_match, source_id,
                   matchedBy, merged, sources, midx, ret>>
    /\ UNCHANGED <<regVars, pegVars, lockVars, matchVars>>

\* lines 260-266: lookup_by_hash when query.hash is Some, else straight to search
StartScrape(h) ==
    /\ pc = "idle"
    /\ kind' = "scrape"
    /\ hasHash' = h
    /\ IF h
       THEN /\ \E order \in enabled_providers : queue' = FilterCap(order, "HashLookup")
            /\ pc' = "lookup"
            /\ UNCHANGED <<pending, results, invoked>>
       ELSE \E order \in enabled_providers : Dispatch(order, "Search", "search", "search")
    /\ UNCHANGED <<tried, found, best_match, source_id, matchedBy, merged, sources, midx,
                   ret>>
    /\ UNCHANGED <<regVars, pegVars, lockVars, matchVars>>

\* aggregate_metadata up to the await of join_all
DispatchMetadata ==
    /\ pc = "matched"
    /\ \E order \in enabled_providers :
          Dispatch(order, "Metadata", "get_metadata", "metadata")
    /\ source_id' = best_match.source_id
    /\ best_match' = NoResult
    /\ tried' = <<>>
    /\ found' = <<>>
    /\ UNCHANGED <<kind, hasHash, matchedBy, merged, sources, midx, ret>>
    /\ UNCHANGED <<regVars, pegVars, lockVars, matchVars>>

ReplyMetadata(p, r) == Reply("metadata", p, r)

\* join_all completes; merge_metadata starts with the default GameMetadata
JoinMetadata ==
    /\ pc = "metadata"
    /\ pending = {}
    /\ pc' = "merge"
    /\ merged' = GameMetadataDefault
    /\ sources' = <<>>
    /\ midx' = 1
    /\ UNCHANGED <<kind, hasHash, queue, pending, results, tried, found, best_match,
                   source_id, matchedBy, invoked, ret>>
    /\ UNCHANGED <<regVars, pegVars, lockVars, matchVars>>

\* the genres loop without the `contains` test
PushAll(acc, gs) == acc \o gs

RECURSIVE PushNew(_, _)
\* for genre in metadata.genres { if !merged.genres.contains(&genre) { push } }
PushNew(acc, gs) ==
    IF gs = <<>> THEN acc
    ELSE PushNew(IF Head(gs) \in Range(acc) THEN acc ELSE Append(acc, Head(gs)), Tail(gs))

\* a merge in which a later provider's value overwrites a filled field
MergeOneOverwrite(m, metadata) ==
    [name         |-> IF metadata.name # "" THEN metadata.name ELSE m.name,
     english_name |-> IF metadata.english_name # None
                      THEN metadata.english_name ELSE m.english_name,
     description  |-> IF metadata.description # None
                      THEN metadata.description ELSE m.description,
     release_date |-> IF metadata.release_date # None
                      THEN metadata.release_date ELSE m.release_date,
     developer    |-> IF metadata.developer # None THEN metadata.developer ELSE m.developer,
     publisher    |-> IF metadata.publisher # None THEN metadata.publisher ELSE m.publisher,
     genres       |-> PushNew(m.genres, metadata.genres),
     players      |-> IF metadata.players # None THEN metadata.players ELSE m.players,
     rating       |-> IF metadata.rating # None THEN metadata.rating ELSE m.rating]

\* the body of the loop of merge_metadata for one Ok(metadata)
MergeOne(m, metadata) ==
    [name         |-> IF m.name = "" THEN metadata.name ELSE m.name,
     english_name |-> IF m.english_name = None /\ metadata.english_name # None
                      THEN metadata.english_name ELSE m.english_name,
     description  |-> IF m.description = None /\ metadata.description # None
                      THEN metadata.description ELSE m.description,
     release_date |-> IF m.release_date = None /\ metadata.release_date # None
                      THEN metadata.release_date ELSE m.release_date,
     developer    |-> IF m.developer = None /\ metadata.developer # None
                      THEN metadata.developer ELSE m.developer,
     publisher    |-> IF m.publisher = None /\ metadata.publisher # None
                      THEN metadata.publisher ELSE m.publisher,
     genres       |-> PushNew(m.genres, metadata.genres),
     players      |-> IF m.players = None /\ metadata.players # None
                      THEN metadata.players ELSE m.players,
     rating       |-> IF m.rating = None /\ metadata.rating # None
                      THEN metadata.rating ELSE m.rating]

\* one iteration of `for (provider_id, result) in results`
MergeStep ==
    /\ pc = "merge"
    /\ midx <= Len(queue)
    /\ LET p == queue[midx] IN
         IF IsOk(results[p])
         THEN /\ sources' = Append(sources, p)
              /\ merged' = MergeOne(merged, results[p].value)
         ELSE UNCHANGED <<sources, merged>>
    /\ midx' = midx + 1
    /\ UNCHANGED <<kind, pc, hasHash, queue, pending, results, tried, found, best_match,
                   source_id, matchedBy, invoked, ret>>
    /\ UNCHANGED <<regVars, pegVars, lockVars, matchVars>>

\* merge_metadata returns; scrape dispatches get_media (lines 288-299)
DispatchMedia ==
    /\ pc = "merge"
    /\ midx > Len(queue)
    /\ \E order \in enabled_providers : Dispatch(order, "Media", "get_media", "media")
    /\ UNCHANGED <<kind, hasHash, tried, found, best_match, source_id, matchedBy, merged,
                   sources, midx, ret>>
    /\ UNCHANGED <<regVars, pegVars, lockVars, matchVars>>

ReplyMedia(p, r) == Reply("media", p, r)

\* a media join that fails when one get_media call failed
JoinMediaAllOrNothing ==
    /\ pc = "media"
    /\ pending = {}
    /\ ret' = IF \A p \in Range(queue) : IsOk(results[p])
              THEN Ok([metadata |-> merged, media |-> FlattenOk(queue, results),
                       sources |-> sources])
              ELSE Err("provider")
    /\ pc' = "done"
    /\ UNCHANGED <<kind, hasHash, queue, pending, results, tried, found, best_match,
                   source_id, matchedBy, merged, sources, midx, invoked>>
    /\ UNCHANGED <<regVars, pegVars, lockVars, matchVars>>

\* join_all completes; scrape returns Ok(ScrapeResult)
JoinMedia ==
    /\ pc = "media"
    /\ pending = {}
    /\ ret' = Ok([metadata |-> merged, media |-> FlattenOk(queue, results),
                  sources |-> sources])
    /\ pc' = "done"
    /\ UNCHANGED <<kind, hasHash, queue, pending, results, tried, found, best_match,
                   source_id, matchedBy, merged, sources, midx, invoked>>
    /\ UNCHANGED <<regVars, pegVars, lockVars, matchVars>>

(***************************************************************************)
(* get_metadata / get_media on a named provider                            *)
(***************************************************************************)
\* a direct call that contains the provider's error as the fan-outs do
DirectContained(method, provider_id, r) ==
    /\ pc = "idle"
    /\ kind' = method
    /\ pc' = "done"
    /\ IF provider_id \in providers
       THEN /\ invoked' = {<<provider_id, method>>}
            /\ ret' = IF IsOk(r) THEN r ELSE Ok(<<>>)
       ELSE /\ invoked' = {}
            /\ ret' = Err("Provider not found")
    /\ UNCHANGED <<hasHash, queue, pending, results, tried, found, best_match, source_id,
                   matchedBy, merged, sources, midx>>
    /\ UNCHANGED <<regVars, pegVars, lockVars, matchVars>>

\* self.providers.get(provider_id).ok_or_else(..)?; provider.<method>(source_id).await
Direct(method, provider_id, r) ==
    /\ pc = "idle"
    /\ kind' = method
    /\ pc' = "done"
    /\ IF provider_id \in providers
       THEN /\ invoked' = {<<provider_id, method>>}
            /\ ret' = r
       ELSE /\ invoked' = {}
            /\ ret' = Err("Provider not found")
    /\ UNCHANGED <<hasHash, queue, pending, results, tried, found, best_match, source_id,
                   matchedBy, merged, sources, midx>>
    /\ UNCHANGED <<regVars, pegVars, lockVars, matchVars>>

get_metadata(provider_id, r) == Direct("get_metadata", provider_id, r)

get_media(provider_id, r) == Direct("get_media", provider_id, r)

\* the caller takes the returned value; no call is in flight any more
Return ==
    /\ pc = "done"
    /\ kind' = "none"
    /\ pc' = "idle"
    /\ hasHash' = FALSE
    /\ queue' = <<>>
    /\ pending' = {}
    /\ results' = FreshResults
    /\ tried' = <<>>
    /\ found' = <<>>
    /\ best_match' = NoResult
    /\ source_id' = None
    /\ matchedBy' = "none"
    /\ merged' = GameMetadataDefault
    /\ sources' = <<>>
    /\ midx' = 0
    /\ invoked' = {}
    /\ ret' = NoRet
    /\ UNCHANGED <<regVars, pegVars, lockVars, matchVars>>

Next == \/ \E id \in ProviderIds : register(id)
        \/ \E id \in ProviderIds, e \in BOOLEAN, pr \in Priorities :
              register_with_config(id, ProviderConfig(e, pr))
        \/ \E id \in ProviderIds : unregister(id)
        \/ \E id \in ProviderIds, e \in BOOLEAN : set_enabled(id, e)
        \/ \E id \in ProviderIds, pr \in Priorities : set_priority(id, pr)
        \/ StartSearch
        \/ \E p \in ProviderIds : \E r \in SearchReplies(p) : ReplySearch(p, r)
        \/ JoinSearch
        \/ StartLookup
        \/ \E p \in ProviderIds : \E r \in LookupReplies(p) : LookupCall(p, r)
        \/ LookupExhausted
        \/ \E h \in BOOLEAN : StartScrape(h)
        \/ DispatchMetadata
        \/ \E p \in ProviderIds : \E r \in MetadataReplies(p) : ReplyMetadata(p, r)
        \/ JoinMetadata
        \/ MergeStep
        \/ DispatchMedia
        \/ \E p \in ProviderIds : \E r \in MediaReplies(p) : ReplyMedia(p, r)
        \/ JoinMedia
        \/ \E p \in ProviderIds : \E r \in MetadataReplies(p) : get_metadata(p, r)
        \/ \E p \in ProviderIds : \E r \in MediaReplies(p) : get_media(p, r)
        \/ Return

Spec == Init /\ [][Next]_vars

(***************************************************************************)
(* Properties of the orchestrator.                                         *)
(***************************************************************************)
ProvidersWith(cap) == {p \in providers : IsEnabled(p) /\ has(p, cap)}

InvokedWith(method) == {c[1] : c \in {d \in invoked : d[2] = method}}

MergeDone == kind = "scrape" /\ pc = "merge" /\ midx > Len(queue)

\* the providers that answered get_metadata with a value for scalar field f
Offering(f) ==
    {p \in ProvidersWith("Metadata") : IsOk(results[p]) /\ results[p].value[f] # EmptyOf(f)}

C1_MergedByPriority ==
    MergeDone =>
        \A f \in ScalarFields :
            IF Offering(f) = {}
            THEN merged[f] = EmptyOf(f)
            ELSE \E p \in Offering(f) :
                    /\ \A q \in Offering(f) : PriorityOf(p) <= PriorityOf(q)
                    /\ merged[f] = results[p].value[f]

C1_FilledStays ==
    (pc = "merge" /\ pc' = "merge") =>
        \A f \in ScalarFields : merged[f] # EmptyOf(f) => merged'[f] = merged[f]

\* C1: when merge_metadata has processed the answers of a scrape, every scalar
\* field of the merged metadata is empty if no enabled Metadata provider answered
\* with a value for it, and otherwise holds the value of an answering provider of
\* the lowest priority number among those offering it, whatever the order in
\* which the answers arrived; a field once filled keeps its value during the merge.
C1_PriorityMerge == [](C1_MergedByPriority) /\ [][C1_FilledStays]_vars

\* two providers of different priority both offer developer; the one that sorts
\* first by priority is not the first by id, and its value is the merged one
C1_Witness ==
    /\ MergeDone
    /\ {"p1", "p2"} \subseteq Offering("developer")
    /\ PriorityOf("p2") < PriorityOf("p1")
    /\ merged["developer"] = "p2"
    /\ merged["players"] = "p1"

SearchDone == kind = "search" /\ pc = "done"

FromProvider(s, p) == SelectSeq(s, LAMBDA r : r.provider = p)

\* C2: search returns Ok with, for every provider, exactly the list that provider
\* answered (duplicates included) when it is enabled, has Search and answered
\* Ok, and nothing of it otherwise; every enabled Search provider was called and
\* has answered when search returns, whatever the other providers answered.
C2_SearchCollectsAll ==
    SearchDone =>
        /\ IsOk(ret)
        /\ InvokedWith("search") = ProvidersWith("Search")
        /\ \A p \in ProvidersWith("Search") : results[p] # NoReply
        /\ \A p \in ProviderIds :
              FromProvider(ret.value, p) =
                  IF p \in ProvidersWith("Search") /\ IsOk(results[p])
                  THEN results[p].value ELSE <<>>

\* one provider fails, the other answers three results, two of them equal
C2_Witness ==
    /\ SearchDone
    /\ \E p, q \in ProvidersWith("Search") :
          /\ results[p] = Err("provider")
          /\ IsOk(results[q])
          /\ Len(results[q].value) = 3
          /\ ret = Ok(results[q].value)

TriedIds == {tried[i][1] : i \in DOMAIN tried}

LookupTraced ==
    \/ pc = "lookup"
    \/ kind = "lookup_by_hash" /\ pc = "done"
    \/ kind = "scrape" /\ pc = "matched" /\ matchedBy = "hash"

\* C3: the providers lookup_by_hash has called are enabled HashLookup providers,
\* each called once, in ascending priority order and before every such provider
\* not called yet; no provider is called after one has reported a match; the
\* call returns the match of the last provider called, or no match once every
\* enabled HashLookup provider has been called without a match.
C3_LookupInPriorityOrder ==
    LookupTraced =>
        /\ TriedIds \subseteq ProvidersWith("HashLookup")
        /\ InvokedWith("lookup_by_hash") = TriedIds
        /\ \A i, j \in DOMAIN tried :
              i < j => /\ tried[i][1] # tried[j][1]
                       /\ PriorityOf(tried[i][1]) <= PriorityOf(tried[j][1])
        /\ \A i \in DOMAIN tried : \A q \in ProvidersWith("HashLookup") \ TriedIds :
              PriorityOf(tried[i][1]) <= PriorityOf(q)
        /\ \A i \in DOMAIN tried : i < Len(tried) => ~IsMatch(tried[i][2])
        /\ (kind = "lookup_by_hash" /\ pc = "done") =>
              IF ret = Ok(NoResult)
              THEN /\ TriedIds = ProvidersWith("HashLookup")
                   /\ \A i \in DOMAIN tried : ~IsMatch(tried[i][2])
              ELSE /\ tried # <<>>
                   /\ IsMatch(tried[Len(tried)][2])
                   /\ ret = Ok(tried[Len(tried)][2].value[1])

\* three providers could answer; the first has no match, the second has one and
\* its result is returned, the third is not called
C3_Witness ==
    /\ kind = "lookup_by_hash" /\ pc = "done"
    /\ Cardinality(ProvidersWith("HashLookup")) = 3
    /\ Len(tried) = 2
    /\ tried[1][2] = Ok(<<>>)
    /\ IsMatch(tried[2][2])
    /\ ret = Ok(tried[2][2].value[1])
    /\ Cardinality(InvokedWith("lookup_by_hash")) = 2

\* C4: in a scrape, a match of lookup_by_hash is the best match and no provider's
\* search is called; without a hash no provider's lookup_by_hash is called; with
\* a hash that no provider matches, every enabled HashLookup provider was asked
\* and search is called on every enabled Search provider.
C4_HashBeforeSearch ==
    kind = "scrape" =>
        /\ matchedBy = "hash" => hasHash /\ InvokedWith("search") = {}
        /\ (matchedBy = "hash" /\ pc = "matched") =>
              /\ tried # <<>>
              /\ IsMatch(tried[Len(tried)][2])
              /\ best_match = tried[Len(tried)][2].value[1]
        /\ ~hasHash => InvokedWith("lookup_by_hash") = {}
        /\ (hasHash /\ matchedBy # "hash" /\ pc # "lookup") =>
              /\ InvokedWith("lookup_by_hash") = ProvidersWith("HashLookup")
              /\ InvokedWith("search") = ProvidersWith("Search")

\* a scrape with a hash returned the aggregate of a hash match although a Search
\* provider was enabled
C4_Witness ==
    /\ kind = "scrape" /\ pc = "done"
    /\ matchedBy = "hash"
    /\ IsOk(ret)
    /\ ProvidersWith("Search") # {}
    /\ InvokedWith("get_metadata") # {}

C5_FailsOnlyWithoutResults ==
    /\ (kind = "scrape" /\ pc = "done") =>
          IF IsOk(ret)
          THEN matchedBy \in {"hash", "search"}
          ELSE /\ ret = Err("No results found")
               /\ matchedBy = "nothing"
               /\ FlattenOk(queue, results) = <<>>
               /\ InvokedWith("get_metadata") = {}
               /\ InvokedWith("get_media") = {}
    /\ (kind = "scrape" /\ matchedBy = "nothing") => pc = "done" /\ ~IsOk(ret)
    /\ (kind = "scrape" /\ matchedBy = "search" /\ pc = "matched") => found # <<>>
    /\ (EnabledSet = {} /\ pc = "done" /\ kind = "search") => ret = Ok(<<>>)
    /\ (EnabledSet = {} /\ pc = "done" /\ kind = "scrape") => ret = Err("No results found")

C5_EmptySearchFails ==
    (kind = "scrape" /\ pc = "search" /\ pc' # "search") =>
        IF FlattenOk(queue, results) = <<>>
        THEN pc' = "done" /\ ret' = Err("No results found")
        ELSE pc' = "matched"

\* C5: a scrape returns an error only as "No results found", with no hash match,
\* an empty search result and no get_metadata or get_media call made; when the
\* search of a scrape ends, the scrape fails if the result list is empty and
\* goes on with a best match otherwise; with no enabled provider search returns
\* the empty list and scrape fails with "No results found".
C5_NoResultsFound == [](C5_FailsOnlyWithoutResults) /\ [][C5_EmptySearchFails]_vars

\* a scrape with a hash: the HashLookup provider has no match, the Search
\* provider answers the empty list, the scrape fails
C5_Witness ==
    /\ kind = "scrape" /\ pc = "done"
    /\ hasHash
    /\ InvokedWith("lookup_by_hash") # {}
    /\ \E p \in ProvidersWith("Search") : results[p] = Ok(<<>>)
    /\ ret = Err("No results found")

C6_BestIsMaximal ==
    (kind = "scrape" /\ pc = "matched" /\ matchedBy = "search") =>
        /\ \E i \in DOMAIN found : found[i] = best_match
        /\ \A j \in DOMAIN found : found[j].confidence <= best_match.confidence

C6_SourceIdOfBest ==
    (kind = "scrape" /\ pc = "matched" /\ pc' # "matched") =>
        pc' = "metadata" /\ source_id' = best_match.source_id

\* C6: the best match scrape takes from a search result list is an element of
\* the list, no element of the list has a greater confidence, and its source_id
\* is the one the get_metadata calls are made with.
C6_BestMatchMaxConfidence == [](C6_BestIsMaximal) /\ [][C6_SourceIdOfBest]_vars

\* the list starts with a result of lower confidence than the one chosen
C6_Witness ==
    /\ kind = "scrape" /\ pc = "matched" /\ matchedBy = "search"
    /\ Len(found) >= 4
    /\ found[1].confidence < best_match.confidence
    /\ found[1].source_id # best_match.source_id

CapabilityFor(method) ==
    CASE method = "search" -> "Search"
      [] method = "lookup_by_hash" -> "HashLookup"
      [] method = "get_metadata" -> "Metadata"
      [] OTHER -> "Media"

\* C7: every call made on a provider is of a method whose capability the
\* provider declares.
C7_OnlyCapableInvoked ==
    \A c \in invoked : has(c[1], CapabilityFor(c[2]))

SP == " "
TAB == "\t"
NL == "\n"
COLON == ":"
HASH == "#"
DOT == "."

Some(v) == <<v>>
NoneOpt == <<>>
is_some(o) == o # <<>>
unwrap(o) == o[1]

\* char::is_whitespace over the separators of the model
is_whitespace(t) == t \in {SP, TAB, NL}

RECURSIVE trim_start(_)
trim_start(s) ==
    IF s # <<>> /\ is_whitespace(Head(s)) THEN trim_start(Tail(s)) ELSE s

RECURSIVE trim_end(_)
trim_end(s) ==
    IF s # <<>> /\ is_whitespace(s[Len(s)]) THEN trim_end(SubSeq(s, 1, Len(s) - 1)) ELSE s

trim(s) == trim_end(trim_start(s))

\* str::find: the index of the first t, 0 for None
find(s, t) ==
    IF \E i \in DOMAIN s : s[i] = t
    THEN CHOOSE i \in DOMAIN s : s[i] = t /\ \A j \in 1..(i - 1) : s[j] # t
    ELSE 0

RECURSIVE lines(_)
\* str::lines: split at line feeds, no final empty line
lines(s) ==
    IF s = <<>> THEN <<>>
    ELSE LET i == find(s, NL) IN
         IF i = 0 THEN <<s>>
         ELSE <<SubSeq(s, 1, i - 1)>> \o lines(SubSeq(s, i + 1, Len(s)))

RECURSIVE split_whitespace(_)
split_whitespace(s) ==
    LET t == trim_start(s) IN
    IF t = <<>> THEN <<>>
    ELSE IF \E i \in DOMAIN t : is_whitespace(t[i])
    THEN LET i == CHOOSE i \in DOMAIN t :
                      is_whitespace(t[i]) /\ \A j \in 1..(i - 1) : ~is_whitespace(t[j])
         IN <<SubSeq(t, 1, i - 1)>> \o split_whitespace(SubSeq(t, i + 1, Len(t)))
    ELSE <<t>>

\* str::replace of one character by another
replace(s, from, to) ==
    IF s = <<>> THEN <<>> ELSE [i \in DOMAIN s |-> IF s[i] = from THEN to ELSE s[i]]

\* the lower-case form of a token; the words of the model are lower-case but
\* for the asset keys export_to_pegasus writes and an upper-case file extension
\* the ASCII letters, char::is_ascii_uppercase / is_ascii_lowercase
UpperLetters == <<"A", "B", "C", "D", "E", "F", "G", "H", "I", "J", "K", "L", "M", "N", "O", "P",
                  "Q", "R", "S", "T", "U", "V", "W", "X", "Y", "Z">>
LowerLetters == <<"a", "b", "c", "d", "e", "f", "g", "h", "i", "j", "k", "l", "m", "n", "o", "p",
                  "q", "r", "s", "t", "u", "v", "w", "x", "y", "z">>
UpperSet == {UpperLetters[i] : i \in DOMAIN UpperLetters}
LowerSet == {LowerLetters[i] : i \in DOMAIN LowerLetters}
is_ascii_uppercase(c) == c \in UpperSet
is_ascii_lowercase(c) == c \in LowerSet
is_ascii_alphabetic(c) == is_ascii_uppercase(c) \/ is_ascii_lowercase(c)
is_ascii_digit(c) == c \in {"0", "1", "2", "3", "4", "5", "6", "7", "8", "9"}
to_ascii_uppercase(c) ==
    IF is_ascii_lowercase(c)
    THEN UpperLetters[CHOOSE i \in DOMAIN LowerLetters : LowerLetters[i] = c] ELSE c

\* the tokens that to_lowercase changes: the camel-case asset keys, an upper
\* case extension and the upper case letters
Lowered ==
    [t \in {"assets.boxFront", "assets.boxBack", "assets.boxSpine", "assets.boxFull", ".ZIP"}
         \cup UpperSet |->
        CASE t = "assets.boxFront" -> "assets.boxfront"
          [] t = "assets.boxBack" -> "assets.boxback"
          [] t = "assets.boxSpine" -> "assets.boxspine"
          [] t = "assets.boxFull" -> "assets.boxfull"
          [] t = ".ZIP" -> ".zip"
          [] OTHER -> LowerLetters[CHOOSE i \in DOMAIN UpperLetters : UpperLetters[i] = t]]

Lower(t) == IF t \in DOMAIN Lowered THEN Lowered[t] ELSE t

to_lowercase(s) == IF s = <<>> THEN <<>> ELSE [i \in DOMAIN s |-> Lower(s[i])]

RECURSIVE join(_, _)
\* [String]::join(sep)
join(ss, sep) ==
    IF ss = <<>> THEN <<>>
    ELSE IF Len(ss) = 1 THEN ss[1]
    ELSE ss[1] \o <<sep>> \o join(Tail(ss), sep)

OptionFields == {"developer", "publisher", "genre", "players", "summary", "description",
                 "release", "rating", "sort_title"}

AssetFields == {"box_front", "box_back", "box_spine", "box_full", "cartridge", "logo",
                "marquee", "bezel", "gridicon", "flyer", "background", "music",
                "screenshot", "titlescreen", "video"}

\* HashMap::new()
EmptyMap == [k \in {} |-> <<>>]

\* HashMap::insert
insert(m, k, v) == [x \in DOMAIN m \cup {k} |-> IF x = k THEN v ELSE m[x]]

PegasusGameDefault ==
    [name |-> <<>>, file |-> NoneOpt, files |-> <<>>,
     developer |-> NoneOpt, publisher |-> NoneOpt, genre |-> NoneOpt, players |-> NoneOpt,
     summary |-> NoneOpt, description |-> NoneOpt, release |-> NoneOpt, rating |-> NoneOpt,
     sort_title |-> NoneOpt,
     box_front |-> NoneOpt, box_back |-> NoneOpt, box_spine |-> NoneOpt,
     box_full |-> NoneOpt, cartridge |-> NoneOpt, logo |-> NoneOpt, marquee |-> NoneOpt,
     bezel |-> NoneOpt, gridicon |-> NoneOpt, flyer |-> NoneOpt, background |-> NoneOpt,
     music |-> NoneOpt, screenshot |-> NoneOpt, titlescreen |-> NoneOpt, video |-> NoneOpt,
     extra |-> EmptyMap]

PegasusCollectionDefault ==
    [name |-> <<>>, short_name |-> NoneOpt, extensions |-> <<>>, files |-> <<>>,
     ignore_files |-> <<>>, launch_command |-> NoneOpt, workdir |-> NoneOpt]

\* the tokens of the model that start with "x-"
XTokens == {"x-a", "x-b", "x-english-name"}

\* the match arm `a | b | ..` on a key
Is(key, names) == \E n \in names : key = <<n>>

\* the game arm of apply_key_value (lines 258-304)
ApplyToGame(key, value, g) ==
    LET first_value == LET w == split_whitespace(value) IN
                       IF w = <<>> THEN NoneOpt ELSE Some(w[1])
    IN CASE Is(key, {"file"}) -> [g EXCEPT !.file = Some(value)]
         [] Is(key, {"files"}) -> [g EXCEPT !.files = split_whitespace(value)]
         [] Is(key, {"developer", "developers"}) -> [g EXCEPT !.developer = Some(value)]
         [] Is(key, {"publisher", "publishers"}) -> [g EXCEPT !.publisher = Some(value)]
         [] Is(key, {"genre", "genres"}) -> [g EXCEPT !.genre = Some(value)]
         [] Is(key, {"players"}) -> [g EXCEPT !.players = Some(value)]
         [] Is(key, {"summary"}) -> [g EXCEPT !.summary = Some(value)]
         [] Is(key, {"description"}) -> [g EXCEPT !.description = Some(value)]
         [] Is(key, {"release"}) -> [g EXCEPT !.release = Some(value)]
         [] Is(key, {"rating"}) -> [g EXCEPT !.rating = Some(value)]
         [] Is(key, {"sort_title", "sort_name", "sort-by"}) ->
                [g EXCEPT !.sort_title = Some(value)]
         [] Is(key, {"assets.boxfront", "assets.box_front", "assets.boxart2d", "boxart",
                     "cover"}) -> [g EXCEPT !.box_front = first_value]
         [] Is(key, {"assets.boxback", "assets.box_back"}) ->
                [g EXCEPT !.box_back = first_value]
         [] Is(key, {"assets.boxspine", "assets.box_spine"}) ->
                [g EXCEPT !.box_spine = first_value]
         [] Is(key, {"assets.boxfull", "assets.box_full"}) ->
                [g EXCEPT !.box_full = first_value]
         [] Is(key, {"assets.cartridge", "assets.disc", "assets.cart"}) ->
                [g EXCEPT !.cartridge = first_value]
         [] Is(key, {"assets.logo", "assets.wheel"}) -> [g EXCEPT !.logo = first_value]
         [] Is(key, {"assets.marquee", "assets.banner"}) ->
                [g EXCEPT !.marquee = first_value]
         [] Is(key, {"assets.bezel", "assets.screenmarquee"}) ->
                [g EXCEPT !.bezel = first_value]
         [] Is(key, {"assets.gridicon", "assets.steam", "assets.poster"}) ->
                [g EXCEPT !.gridicon = first_value]
         [] Is(key, {"assets.flyer"}) -> [g EXCEPT !.flyer = first_value]
         [] Is(key, {"assets.background", "assets.fanart"}) ->
                [g EXCEPT !.background = first_value]
         [] Is(key, {"assets.music"}) -> [g EXCEPT !.music = first_value]
         [] Is(key, {"assets.screenshot", "assets.screenshots"}) ->
                [g EXCEPT !.screenshot = first_value]
         [] Is(key, {"assets.titlescreen", "assets.title_screen"}) ->
                [g EXCEPT !.titlescreen = first_value]
         [] Is(key, {"assets.video", "assets.videos"}) -> [g EXCEPT !.video = first_value]
         [] key # <<>> /\ Head(key) \in XTokens ->
                [g EXCEPT !.extra = insert(g.extra, key, value)]
         [] OTHER -> g

\* the collection arm of apply_key_value (lines 307-321)
ApplyToCollection(key, value, c) ==
    CASE Is(key, {"shortname", "short_name"}) -> [c EXCEPT !.short_name = Some(value)]
      [] Is(key, {"extension", "extensions"}) ->
             [c EXCEPT !.extensions = split_whitespace(value)]
      [] Is(key, {"files"}) -> [c EXCEPT !.files = split_whitespace(value)]
      [] Is(key, {"ignore-file", "ignore-files"}) ->
             [c EXCEPT !.ignore_files = split_whitespace(value)]
      [] Is(key, {"launch", "command"}) -> [c EXCEPT !.launch_command = Some(value)]
      [] Is(key, {"workdir", "cwd"}) -> [c EXCEPT !.workdir = Some(value)]
      [] OTHER -> c

\* an apply_key_value that looks at the collection first
apply_key_value_collection_first(key, value, collection, game) ==
    LET key_lower == to_lowercase(key) IN
    IF is_some(collection)
    THEN [collection |-> Some(ApplyToCollection(key_lower, value, unwrap(collection))),
          game |-> game]
    ELSE IF is_some(game)
    THEN [collection |-> collection,
          game |-> Some(ApplyToGame(key_lower, value, unwrap(game)))]
    ELSE [collection |-> collection, game |-> game]

\* the pair (collection, game) after the call
apply_key_value(key, value, collection, game) ==
    LET key_lower == to_lowercase(key) IN
    IF is_some(game)
    THEN [collection |-> collection,
          game |-> Some(ApplyToGame(key_lower, value, unwrap(game)))]
    ELSE IF is_some(collection)
    THEN [collection |-> Some(ApplyToCollection(key_lower, value, unwrap(collection))),
          game |-> game]
    ELSE [collection |-> collection, game |-> game]

\* the locals of parse_pegasus_content before the first line
ParserStart ==
    [games |-> <<>>, collections |-> <<>>, current_collection |-> NoneOpt,
     current_game |-> NoneOpt, current_key |-> NoneOpt, current_value |-> <<>>]

\* if let Some(key) = current_key.take() { apply_key_value(..); current_value.clear() }
ProcessPrevious(st) ==
    IF is_some(st.current_key)
    THEN LET r == apply_key_value(unwrap(st.current_key), st.current_value,
                                  st.current_collection, st.current_game)
         IN [st EXCEPT !.current_collection = r.collection, !.current_game = r.game,
                       !.current_key = NoneOpt, !.current_value = <<>>]
    ELSE st

\* if let Some(game) = current_game.take() { result.games.push(game) }
PushGame(st) ==
    IF is_some(st.current_game)
    THEN [st EXCEPT !.games = Append(@, unwrap(st.current_game)), !.current_game = NoneOpt]
    ELSE st

PushCollection(st) ==
    IF is_some(st.current_collection)
    THEN [st EXCEPT !.collections = Append(@, unwrap(st.current_collection)),
                    !.current_collection = NoneOpt]
    ELSE st

\* one iteration of `for line in content.lines()`
ParseLine(st, line) ==
    IF trim(line) = <<>> \/ Head(line) = HASH THEN st
    ELSE IF Head(line) \in {SP, TAB}
    THEN LET trimmed == trim(line) IN
         [st EXCEPT !.current_value =
              IF trimmed = <<DOT>> THEN @ \o <<NL, NL>>
              ELSE (IF @ # <<>> THEN @ \o <<SP>> ELSE @) \o trimmed]
    ELSE LET f == ProcessPrevious(st)
             colon_pos == find(line, COLON)
         IN IF colon_pos = 0 THEN f
            ELSE LET key == to_lowercase(trim(SubSeq(line, 1, colon_pos - 1)))
                     value == trim(SubSeq(line, colon_pos + 1, Len(line)))
                 IN IF key = <<"collection">>
                    THEN [PushCollection(PushGame(f)) EXCEPT !.current_collection =
                              Some([PegasusCollectionDefault EXCEPT !.name = value])]
                    ELSE IF key = <<"game">>
                    THEN [PushGame(f) EXCEPT !.current_game =
                              Some([PegasusGameDefault EXCEPT !.name = value])]
                    ELSE [f EXCEPT !.current_key = Some(key), !.current_value = value]

RECURSIVE ParseLines(_, _)
\* `for line in content.lines()`: `next` is the state after the first line (bound
\* as a value, so that it is computed before the remaining lines are gone through)
ParseLines(st, ls) ==
    IF ls = <<>> THEN st
    ELSE CHOOSE last \in {ParseLines(next, Tail(ls)) : next \in {ParseLine(st, Head(ls))}} :
             TRUE

\* PegasusMetadata { collections, games }
parse_pegasus_content(text) ==
    LET st == PushCollection(PushGame(ProcessPrevious(ParseLines(ParserStart, lines(text)))))
    IN [collections |-> st.collections, games |-> st.games]

\* format!("{}: {}\n", key, value)
KeyValueLine(key, value) == <<key, COLON, SP>> \o value \o <<NL>>

RECURSIVE ContinuationLines(_)
\* for line in &lines[1..] of write_multiline_field
ContinuationLines(ls) ==
    IF ls = <<>> THEN <<>>
    ELSE (IF Head(ls) = <<>> THEN <<SP, SP, DOT, NL>> ELSE <<SP, SP>> \o Head(ls) \o <<NL>>)
         \o ContinuationLines(Tail(ls))

write_multiline_field(key, value) ==
    LET ls == lines(value) IN
    IF ls = <<>> THEN <<>>
    ELSE KeyValueLine(key, ls[1]) \o ContinuationLines(Tail(ls))

\* also the `if let Some(ref v)` lines of the scalar fields
write_asset_field(key, value) ==
    IF is_some(value) THEN KeyValueLine(key, unwrap(value)) ELSE <<>>

RECURSIVE FileLines(_)
\* for f in &game.files
FileLines(fs) ==
    IF fs = <<>> THEN <<>> ELSE KeyValueLine("file", Head(fs)) \o FileLines(Tail(fs))

\* the x- keys of the model in the order of sort()
ExtraKeys == << <<"x-a">>, <<"x-b">> >>

RECURSIVE ExtraLines(_, _)
ExtraLines(ks, extra) ==
    IF ks = <<>> THEN <<>>
    ELSE (IF Head(ks) \in DOMAIN extra
          THEN Head(ks) \o <<COLON, SP>> \o extra[Head(ks)] \o <<NL>> ELSE <<>>)
         \o ExtraLines(Tail(ks), extra)

\* the collection header (lines 353-373)
CollectionHeader(options) ==
    IF options.include_collection
    THEN write_asset_field("collection", options.collection_name)
         \o (IF is_some(options.extensions) /\ unwrap(options.extensions) # <<>>
             THEN KeyValueLine("extensions", join(unwrap(options.extensions), SP))
             ELSE <<>>)
         \o write_asset_field("launch", options.launch_command)
         \o write_asset_field("workdir", options.workdir)
         \o <<NL>>
    ELSE <<>>

\* the body of `for game in games` (lines 377-459)
GameBlock(game, options) ==
    KeyValueLine("game", game.name)
    \o (IF is_some(game.sort_title) /\ unwrap(game.sort_title) # game.name
        THEN KeyValueLine("sort-by", unwrap(game.sort_title)) ELSE <<>>)
    \o write_asset_field("file", game.file)
    \o FileLines(game.files)
    \o write_asset_field("developer", game.developer)
    \o write_asset_field("publisher", game.publisher)
    \o write_asset_field("genre", game.genre)
    \o write_asset_field("players", game.players)
    \o write_asset_field("release", game.release)
    \o write_asset_field("rating", game.rating)
    \o (IF is_some(game.summary)
        THEN KeyValueLine("summary", replace(unwrap(game.summary), NL, SP)) ELSE <<>>)
    \o (IF is_some(game.description)
        THEN write_multiline_field("description", unwrap(game.description)) ELSE <<>>)
    \o (IF options.include_assets
        THEN write_asset_field("assets.boxFront", game.box_front)
             \o write_asset_field("assets.boxBack", game.box_back)
             \o write_asset_field("assets.boxSpine", game.box_spine)
             \o write_asset_field("assets.boxFull", game.box_full)
             \o write_asset_field("assets.cartridge", game.cartridge)
             \o write_asset_field("assets.logo", game.logo)
             \o write_asset_field("assets.marquee", game.marquee)
             \o write_asset_field("assets.bezel", game.bezel)
             \o write_asset_field("assets.gridicon", game.gridicon)
             \o write_asset_field("assets.flyer", game.flyer)
             \o write_asset_field("assets.background", game.background)
             \o write_asset_field("assets.music", game.music)
             \o write_asset_field("assets.screenshot", game.screenshot)
             \o write_asset_field("assets.titlescreen", game.titlescreen)
             \o write_asset_field("assets.video", game.video)
        ELSE <<>>)
    \o ExtraLines(ExtraKeys, game.extra)
    \o <<NL>>

RECURSIVE GameBlocks(_, _)
GameBlocks(games, options) ==
    IF games = <<>> THEN <<>>
    ELSE GameBlock(Head(games), options) \o GameBlocks(Tail(games), options)

export_to_pegasus(games, options) == CollectionHeader(options) \o GameBlocks(games, options)

\* new_game.file.clone().or_else(|| new_game.files.first().cloned())
file_key(g) ==
    IF is_some(g.file) THEN g.file
    ELSE IF g.files # <<>> THEN Some(g.files[1]) ELSE NoneOpt

RECURSIVE existing_files(_)
\* the set built by the first loop of write_pegasus_file (lines 518-526)
existing_files(games) ==
    IF games = <<>> THEN {}
    ELSE (IF is_some(Head(games).file) THEN {unwrap(Head(games).file)} ELSE {})
         \cup Range(Head(games).files) \cup existing_files(Tail(games))

\* |g| g.file.as_ref() == Some(key) || g.files.contains(key)
HoldsFile(g, key) == g.file = Some(key) \/ key \in Range(g.files)

\* the fields the merge copies when the new game has them (lines 546-595)
MergedFields == {"developer", "publisher", "genre", "players", "summary", "description",
                 "release", "rating", "sort_title", "box_front", "box_back", "logo",
                 "screenshot", "video", "background"}

\* the union of the maps, new values winning
ExtendMap(old, new) ==
    [k \in DOMAIN old \cup DOMAIN new |-> IF k \in DOMAIN new THEN new[k] ELSE old[k]]

\* the update of existing_game from new_game (lines 543-595)
UpdateGame(existing_game, new_game) ==
    [f \in DOMAIN existing_game |->
        IF f = "name"
        THEN IF new_game.name # <<>> THEN new_game.name ELSE existing_game.name
        ELSE IF f \in MergedFields
        THEN IF is_some(new_game[f]) THEN new_game[f] ELSE existing_game[f]
        ELSE IF f = "extra" THEN ExtendMap(existing_game.extra, new_game.extra)
        ELSE existing_game[f]]

RECURSIVE MergeGames(_, _, _)
\* the loop `for new_game in games` (lines 529-605)
MergeGames(merged_games, known, games) ==
    IF games = <<>> THEN merged_games
    ELSE LET new_game == Head(games)
             key == file_key(new_game)
         IN IF is_some(key) /\ unwrap(key) \in known
            THEN LET i == CHOOSE i \in DOMAIN merged_games :
                              /\ HoldsFile(merged_games[i], unwrap(key))
                              /\ \A j \in 1..(i - 1) : ~HoldsFile(merged_games[j], unwrap(key))
                 IN MergeGames([merged_games EXCEPT ![i] = UpdateGame(@, new_game)],
                               known, Tail(games))
            ELSE MergeGames(Append(merged_games, new_game), known, Tail(games))

(***************************************************************************)
(* write_pegasus_file on one path.  The inputs: games with each kind of    *)
(* file key, two names and three payloads; three option sets.              *)
(***************************************************************************)
Word(w) == <<w>>

FileKeyInputs ==
    {[file |-> Some(Word("a")), files |-> <<>>],
     [file |-> Some(Word("b")), files |-> <<>>],
     [file |-> NoneOpt, files |-> <<Word("a"), Word("b")>>],
     [file |-> NoneOpt, files |-> <<>>]}

NameInputs == {Word("n1"), Word("n2")}

PayloadInputs ==
    {PegasusGameDefault,
     [PegasusGameDefault EXCEPT
         !.developer = Some(Word("d1")), !.genre = Some(Word("g1")),
         !.summary = Some(<<"s1", SP, "s2">>), !.description = Some(Word("t1")),
         !.box_front = Some(Word("u1")), !.box_spine = Some(Word("u1")),
         !.extra = insert(EmptyMap, Word("x-a"), Word("v1"))],
     [PegasusGameDefault EXCEPT
         !.developer = Some(Word("d2")), !.release = Some(Word("r1")),
         !.description = Some(<<"t1", NL, NL, "t2">>), !.sort_title = Some(Word("n1")),
         !.box_spine = Some(Word("u2")), !.video = Some(Word("u2")),
         !.extra = insert(insert(EmptyMap, Word("x-a"), Word("v2")), Word("x-b"),
                          Word("v1"))]}

GameInputs ==
    {[[p EXCEPT !.name = n] EXCEPT !.file = k.file, !.files = k.files] :
        n \in NameInputs, k \in FileKeyInputs, p \in PayloadInputs}

\* PegasusExportOptions::default() with include_assets set
ExportOptions(assets) ==
    [include_collection |-> FALSE, collection_name |-> NoneOpt, extensions |-> NoneOpt,
     launch_command |-> NoneOpt, workdir |-> NoneOpt, include_assets |-> assets]

OptionInputs ==
    {ExportOptions(FALSE), ExportOptions(TRUE),
     [ExportOptions(TRUE) EXCEPT !.include_collection = TRUE,
                                 !.collection_name = Some(Word("c1")),
                                 !.extensions = Some(<<Word("e1"), Word("e2")>>),
                                 !.launch_command = Some(<<"run", SP, "it">>)]}

write_pegasus_file(games, options, merge) ==
    /\ Len(calls) < MaxWrites
    /\ exported' = IF merge /\ exists
                   THEN LET existing == parse_pegasus_content(content) IN
                        MergeGames(existing.games, existing_files(existing.games), games)
                   ELSE games
    /\ content' = export_to_pegasus(exported', options)
    /\ exists' = TRUE
    /\ before' = [exists |-> exists, content |-> content]
    /\ calls' = Append(calls, [games |-> games, options |-> options, merge |-> merge])
    /\ UNCHANGED <<regVars, opVars, lockVars, matchVars, parseVars, saveVars>>

NextPegasus ==
    \E g \in GameInputs : \E options \in OptionInputs : \E merge \in BOOLEAN :
        write_pegasus_file(<<g>>, options, merge)

SpecPegasus == Init /\ [][NextPegasus]_vars

(***************************************************************************)
(* Properties of write_pegasus_file.                                       *)
(***************************************************************************)
LastCall == calls[Len(calls)]

\* the Games of the file as it is now / as the last call found it
ResultGames == parse_pegasus_content(content).games

ExistingGames == parse_pegasus_content(before.content).games

WithFileKey(games, key) == {i \in DOMAIN games : file_key(games[i]) = Some(key)}

\* record r holds every non-empty field of g that an export with `options` writes
HoldsFieldsOf(r, g, options) ==
    /\ g.name # <<>> => r.name = g.name
    /\ \A f \in OptionFields : is_some(g[f]) => r[f] = g[f]
    /\ options.include_assets => \A f \in AssetFields : is_some(g[f]) => r[f] = g[f]
    /\ \A k \in DOMAIN g.extra : k \in DOMAIN r.extra /\ r.extra[k] = g.extra[k]

SameGameTwice ==
    /\ Len(calls) >= 2
    /\ LastCall.merge /\ calls[Len(calls) - 1].merge
    /\ LastCall.games = calls[Len(calls) - 1].games
    /\ is_some(file_key(LastCall.games[1]))

\* C9: after two successive merge-mode calls of write_pegasus_file with the same
\* Game, the file holds exactly one Game with that Game's file-key (its file, or
\* else the first entry of its files), and that Game holds the value of every
\* non-empty field of the Game written (of the asset fields when the options of
\* the second call include assets).
C9_MergeWriteIdempotent ==
    SameGameTwice =>
        LET g == LastCall.games[1]
            key == unwrap(file_key(g))
        IN /\ Cardinality(WithFileKey(ResultGames, key)) = 1
           /\ \A i \in WithFileKey(ResultGames, key) :
                 HoldsFieldsOf(ResultGames[i], g, LastCall.options)

\* the last call was a merge whose new Game matches a Game of the existing file
MergeUpdate ==
    /\ calls # <<>>
    /\ LastCall.merge /\ before.exists
    /\ is_some(file_key(LastCall.games[1]))
    /\ \E i \in DOMAIN ExistingGames :
          HoldsFile(ExistingGames[i], unwrap(file_key(LastCall.games[1])))

\* C10: when the new Game of a merge-write matches a Game of the existing file,
\* the list of Games written has that Game at its place with the name and every
\* optional field and asset field of the new Game where the new Game has one and
\* the existing value elsewhere, and with the two extension maps united, the new
\* value winning; the other Games are the existing ones.
C10_MergeUpdatesEveryField ==
    MergeUpdate =>
        LET new == LastCall.games[1]
            key == unwrap(file_key(new))
            i == CHOOSE i \in DOMAIN ExistingGames :
                     /\ HoldsFile(ExistingGames[i], key)
                     /\ \A j \in 1..(i - 1) : ~HoldsFile(ExistingGames[j], key)
            old == ExistingGames[i]
        IN /\ Len(exported) = Len(ExistingGames)
           /\ \A j \in DOMAIN ExistingGames : j # i => exported[j] = ExistingGames[j]
           /\ exported[i].name = IF new.name # <<>> THEN new.name ELSE old.name
           /\ \A f \in OptionFields \cup AssetFields :
                 exported[i][f] = IF is_some(new[f]) THEN new[f] ELSE old[f]
           /\ DOMAIN exported[i].extra = DOMAIN old.extra \cup DOMAIN new.extra
           /\ \A k \in DOMAIN exported[i].extra :
                 exported[i].extra[k] = IF k \in DOMAIN new.extra THEN new.extra[k]
                                        ELSE old.extra[k]

\* the last call was a merge on an existing file
MergeWrite == calls # <<>> /\ LastCall.merge /\ before.exists

\* the Games of the existing file that the new Game of the last call does not match
Unmatched ==
    LET key == file_key(LastCall.games[1])
    IN {i \in DOMAIN ExistingGames :
           ~(is_some(key) /\ HoldsFile(ExistingGames[i], unwrap(key)))}

\* C11: after a merge-write on an existing file, every Game of the existing file
\* that the new Game does not match is in the rewritten file at its place with
\* every field (asset fields and extension keys included) as it was, and a new
\* Game that matches no existing Game is the one Game added, after the existing
\* ones.
C11_MergeKeepsOtherGames ==
    MergeWrite =>
        /\ Len(ResultGames) >= Len(ExistingGames)
        /\ \A i \in Unmatched : ResultGames[i] = ExistingGames[i]
        /\ Unmatched = DOMAIN ExistingGames =>
              /\ Len(ResultGames) = Len(ExistingGames) + 1
              /\ ResultGames[Len(ResultGames)].name = LastCall.games[1].name

\* the last call wrote its Games as they are: no merge, or no file to merge into
FreshWrite == calls # <<>> /\ ~(LastCall.merge /\ before.exists)

\* C12: parsing the text that export_to_pegasus writes for a list of Games, with
\* the asset fields included, gives the same Games in the same order with every
\* field as it was, and one Collection with the name, extensions, launch command
\* and working directory of the options when a collection header is written.
C12_CodecRoundTrip ==
    (FreshWrite /\ LastCall.options.include_assets) =>
        LET parsed == parse_pegasus_content(content)
            options == LastCall.options
        IN /\ parsed.games = LastCall.games
           /\ options.include_collection =>
                 /\ Len(parsed.collections) = 1
                 /\ Some(parsed.collections[1].name) = options.collection_name
                 /\ Some(parsed.collections[1].extensions) = options.extensions
                 /\ parsed.collections[1].launch_command = options.launch_command
                 /\ parsed.collections[1].workdir = options.workdir

(***************************************************************************)
(* Properties of the registry.                                             *)
(***************************************************************************)
\* C13: a register(id) step leaves id registered with, as its in-memory config,
\* the enabled flag and the priority of the persisted settings entry of id when
\* there is one, and enabled with priority 100 when there is none.
C13_RegisterLoadsPersisted ==
    [][\A id \in ProviderIds :
          register(id) =>
              /\ id \in providers'
              /\ configs'[id] =
                    IF settings[id] # NoConfig
                    THEN ProviderConfig(settings[id].enabled, settings[id].priority)
                    ELSE ProviderConfig(TRUE, DefaultPriority)]_vars

\* the registered ids are the ids that have an in-memory config
RegisteredHaveConfig == \A id \in ProviderIds : id \in providers <=> configs[id] # NoConfig

\* what a setter of `field` with value v leaves behind for id
SetterEffect(id, field, v) ==
    /\ providers' = providers
    /\ \A q \in ProviderIds \ {id} : configs'[q] = configs[q] /\ settings'[q] = settings[q]
    /\ settings'[id] # NoConfig /\ settings'[id][field] = v
    /\ IF id \in providers
       THEN configs'[id] = [configs[id] EXCEPT ![field] = v]
       ELSE configs' = configs

C14_SetterSteps ==
    \A id \in ProviderIds :
        /\ \A b \in BOOLEAN : set_enabled(id, b) => SetterEffect(id, "enabled", b)
        /\ \A pr \in Priorities : set_priority(id, pr) => SetterEffect(id, "priority", pr)

MaxLockOps == 2

ReadCommands == {"scraper_search", "scraper_auto_scrape"}

WriteCommands == {"configure_scraper_provider", "scraper_set_provider_enabled",
                  "scraper_set_provider_priority"}

Last(seq) == seq[Len(seq)]

\* the phases a reading command may enter after the phases in `seen`
NextPhases(cmd, seen) ==
    IF cmd = "scraper_search"
    THEN IF seen = <<>> THEN {"search"} ELSE {}
    ELSE IF seen = <<>> THEN {"lookup_by_hash", "search"}
    ELSE CASE Last(seen).phase = "lookup_by_hash" -> {"search", "aggregate_metadata"}
           [] Last(seen).phase = "search" -> {"aggregate_metadata"}
           [] Last(seen).phase = "aggregate_metadata" -> {"media"}
           [] OTHER -> {}

\* the manager call of a reading command can return after the phases in `seen`
CanReturn(cmd, seen) ==
    /\ seen # <<>>
    /\ IF cmd = "scraper_search" THEN TRUE ELSE Last(seen).phase \in {"search", "media"}

\* the writing commands that are still to change the registry
PendingWriters ==
    {u \in Tasks : /\ task[u].cmd \in WriteCommands
                   /\ \/ task[u].pc = "waiting"
                      \/ task[u].pc = "locked" /\ task[u].mark = nconf}

\* the frontend invokes a command; the task is about to ask for the lock
Invoke(t, cmd) ==
    /\ task[t].pc = "idle"
    /\ cmd \in WriteCommands => nconf + Cardinality(PendingWriters) < MaxLockOps
    /\ task' = [task EXCEPT ![t] = [IdleTask EXCEPT !.cmd = cmd, !.pc = "waiting"]]
    /\ UNCHANGED <<rwlock, regVars, opVars, pegVars, matchVars, setVars>>

\* a read() that does not wait for the writer
read_unguarded(t) ==
    /\ task[t].pc = "waiting" /\ task[t].cmd \in ReadCommands
    /\ rwlock' = [rwlock EXCEPT !.readers = @ \cup {t}]
    /\ task' = [task EXCEPT ![t].pc = "locked"]
    /\ UNCHANGED <<regVars, opVars, pegVars, matchVars, setVars>>

\* state.manager.read().await
read(t) ==
    /\ task[t].pc = "waiting" /\ task[t].cmd \in ReadCommands
    /\ rwlock.writer = {}
    /\ rwlock' = [rwlock EXCEPT !.readers = @ \cup {t}]
    /\ task' = [task EXCEPT ![t].pc = "locked"]
    /\ UNCHANGED <<regVars, opVars, pegVars, matchVars, setVars>>

\* state.manager.write().await
write(t) ==
    /\ task[t].pc = "waiting" /\ task[t].cmd \in WriteCommands
    /\ rwlock.writer = {} /\ rwlock.readers = {}
    /\ rwlock' = [rwlock EXCEPT !.writer = {t}]
    /\ task' = [task EXCEPT ![t].pc = "locked", ![t].mark = nconf]
    /\ UNCHANGED <<regVars, opVars, pegVars, matchVars, setVars>>

\* a phase of manager.search / manager.scrape starts: self.enabled_providers()
Phase(t, phase) ==
    /\ task[t].pc = "locked" /\ task[t].cmd \in ReadCommands
    /\ phase \in NextPhases(task[t].cmd, task[t].seen)
    /\ task' = [task EXCEPT ![t].seen =
                    Append(@, [phase |-> phase, providers |-> providers,
                               configs |-> configs])]
    /\ UNCHANGED <<rwlock, regVars, opVars, pegVars, matchVars, setVars>>

\* the writing command changes the registry, once, under its guard
Holding(t, cmd) == task[t].pc = "locked" /\ task[t].cmd = cmd /\ task[t].mark = nconf

configure_scraper_provider(t, id) ==
    Holding(t, "configure_scraper_provider") /\ register(id)

scraper_set_provider_enabled(t, id, enabled) ==
    Holding(t, "scraper_set_provider_enabled") /\ set_enabled(id, enabled)

scraper_set_provider_priority(t, id, priority) ==
    Holding(t, "scraper_set_provider_priority") /\ set_priority(id, priority)

\* a reading command returns and drops its guard
ReturnRead(t) ==
    /\ task[t].pc = "locked" /\ task[t].cmd \in ReadCommands
    /\ CanReturn(task[t].cmd, task[t].seen)
    /\ rwlock' = [rwlock EXCEPT !.readers = @ \ {t}]
    /\ task' = [task EXCEPT ![t] = IdleTask]
    /\ UNCHANGED <<regVars, opVars, pegVars, matchVars, setVars>>

\* a writing command returns and drops its guard; configure_scraper_provider
\* also returns without a register (empty credentials, unknown provider)
ReturnWrite(t) ==
    /\ task[t].pc = "locked" /\ task[t].cmd \in WriteCommands
    /\ task[t].cmd = "configure_scraper_provider" \/ task[t].mark # nconf
    /\ rwlock' = [rwlock EXCEPT !.writer = @ \ {t}]
    /\ task' = [task EXCEPT ![t] = IdleTask]
    /\ UNCHANGED <<regVars, opVars, pegVars, matchVars, setVars>>

NextLock ==
    \E t \in Tasks :
        \/ \E cmd \in ReadCommands \cup WriteCommands : Invoke(t, cmd)
        \/ read(t)
        \/ write(t)
        \/ \E phase \in {"lookup_by_hash", "search", "aggregate_metadata", "media"} :
              Phase(t, phase)
        \/ \E id \in ProviderIds : configure_scraper_provider(t, id)
        \/ \E id \in ProviderIds, e \in BOOLEAN : scraper_set_provider_enabled(t, id, e)
        \/ \E id \in ProviderIds, pr \in Priorities :
              scraper_set_provider_priority(t, id, pr)
        \/ ReturnRead(t)
        \/ ReturnWrite(t)

SpecLock == Init /\ [][NextLock]_vars

(***************************************************************************)
(* Properties of the commands under the lock.                              *)
(***************************************************************************)
\* the tasks whose search or scrape is in flight
InFlight == {t \in Tasks : task[t].pc = "locked" /\ task[t].cmd \in ReadCommands}

\* the tasks inside a writing command
Writing == {t \in Tasks : task[t].pc = "locked" /\ task[t].cmd \in WriteCommands}

C15_Exclusive == Writing # {} => Cardinality(Writing) = 1 /\ InFlight = {}

\* every phase of a call in flight has read the registry as it is now
C15_SameConfig ==
    \A t \in InFlight : \A i \in DOMAIN task[t].seen :
        task[t].seen[i].providers = providers /\ task[t].seen[i].configs = configs

C15_ChangeUnderWriter ==
    <<providers, configs, settings>>' # <<providers, configs, settings>> =>
        Cardinality(Writing) = 1 /\ InFlight = {}

\* C15: a command that registers a provider or sets an enabled flag or a
\* priority is alone inside the lock: no other writing command and no search
\* or scrape is in flight with it, and the registry changes in no other step;
\* so all phases of one search or scrape read the same providers and configs.
C15_LockGuardsRegistry ==
    [](C15_Exclusive /\ C15_SameConfig) /\ [][C15_ChangeUnderWriter]_vars

\* a scrape in its media phase and another search or scrape are in flight
\* together on a registry that was changed before, while a writing command waits
C15_Witness ==
    \E t, u, w \in Tasks :
        /\ t # u
        /\ {t, u} \subseteq InFlight
        /\ task[t].seen # <<>> /\ Last(task[t].seen).phase = "media"
        /\ task[u].seen # <<>>
        /\ task[w].cmd \in WriteCommands /\ task[w].pc = "waiting"
        /\ providers # {} /\ nconf >= 1

(***************************************************************************)
(* The fan-outs under fairness: every future that is pending completes     *)
(* (the provider answers, with a result or an error), and a task whose     *)
(* join_all is complete is resumed by the runtime.                         *)
(***************************************************************************)
SpecFair ==
    /\ Spec
    /\ WF_vars(\E p \in ProviderIds : \E r \in SearchReplies(p) : ReplySearch(p, r))
    /\ WF_vars(\E p \in ProviderIds : \E r \in MetadataReplies(p) : ReplyMetadata(p, r))
    /\ WF_vars(\E p \in ProviderIds : \E r \in MediaReplies(p) : ReplyMedia(p, r))
    /\ WF_vars(JoinSearch)
    /\ WF_vars(JoinMetadata)
    /\ WF_vars(JoinMedia)

FanOutPhases == {"search", "metadata", "media"}

\* a fan-out is left only when every provider it called has answered
C16_LeavesWhenAllAnswered ==
    (pc \in FanOutPhases /\ pc' # pc) =>
        /\ Range(queue) = ProvidersWith(CapabilityFor(IF pc = "search" THEN "search"
                                                      ELSE IF pc = "metadata"
                                                      THEN "get_metadata" ELSE "get_media"))
        /\ \A p \in Range(queue) : results[p] # NoReply

\* while a provider called by a fan-out has not answered, the call is in it
C16_WaitsWhilePending ==
    \A p \in ProviderIds :
        (pc \in FanOutPhases /\ p \in Range(queue) /\ results[p] = NoReply) =>
            (pc' = pc /\ ret' = ret)

\* C16: the fan-out of search, of aggregate_metadata and of the media step of
\* scrape is left only when every enabled provider with the capability has
\* answered, a step in which one of them has not answered yet leaves the call
\* where it is, and when every pending provider eventually answers the fan-out
\* is eventually left.
C16_GatherWithoutTimeout ==
    /\ [][C16_LeavesWhenAllAnswered /\ C16_WaitsWhilePending]_vars
    /\ (pc \in FanOutPhases) ~> (pc \notin FanOutPhases)

\* a search over two providers has returned after one answered with an error
\* and the other with results
C16_Witness ==
    /\ kind = "search" /\ pc = "done"
    /\ Len(queue) = 2
    /\ \E p, q \in Range(queue) : ~IsOk(results[p]) /\ IsOk(results[q])
    /\ IsOk(ret)

(***************************************************************************)
(* Properties of merge_metadata and of the result of scrape.               *)
(***************************************************************************)
RECURSIVE GenresOffered(_)
\* the genres of the providers of q that answered get_metadata with Ok, in the
\* order of q and, for one provider, of its list
GenresOffered(q) ==
    IF q = <<>> THEN <<>>
    ELSE (IF IsOk(results[Head(q)]) THEN results[Head(q)].value.genres ELSE <<>>)
         \o GenresOffered(Tail(q))

\* the index at which g is first seen in s
FirstSeen(s, g) == CHOOSE i \in DOMAIN s : s[i] = g /\ \A j \in 1..(i - 1) : s[j] # g

\* C17: when merge_metadata has processed the answers of a scrape, which it
\* visits in ascending priority order, the merged genres are the genres of the
\* providers that answered get_metadata with Ok: every one of them, none twice,
\* in the order in which they are first seen.
C17_GenresUnion ==
    MergeDone =>
        LET offered == GenresOffered(queue) IN
        /\ \A i, j \in DOMAIN queue : i < j => PriorityOf(queue[i]) <= PriorityOf(queue[j])
        /\ Range(merged.genres) = Range(offered)
        /\ \A i, j \in DOMAIN merged.genres :
              i < j => /\ merged.genres[i] # merged.genres[j]
                       /\ FirstSeen(offered, merged.genres[i])
                              < FirstSeen(offered, merged.genres[j])

\* p3 sorts before p2 and p1 and lists g2 twice; all three answered, p1 without
\* genres; g2 and g3 come first and each genre is listed once
C17_Witness ==
    /\ MergeDone
    /\ queue = <<"p3", "p1", "p2">>
    /\ PriorityOf("p3") < PriorityOf("p1")
    /\ \A p \in Range(queue) : IsOk(results[p])
    /\ merged.genres = <<"g2", "g3", "g1">>

HasBestMatch == kind = "scrape" /\ matchedBy \in {"hash", "search"}

ScrapeDone == HasBestMatch /\ pc = "done"

\* a scrape with a best match has no error as its return value
C18_NeverAnError == (HasBestMatch /\ ret # NoRet) => IsOk(ret)

\* merge_metadata leaves in sources the providers asked that answered Ok
C18_SourcesAreSuccesses ==
    MergeDone =>
        /\ Range(queue) = ProvidersWith("Metadata")
        /\ Range(sources) = {p \in ProvidersWith("Metadata") : IsOk(results[p])}
        /\ \A i, j \in DOMAIN sources : i # j => sources[i] # sources[j]

\* what scrape returns: the sources of merge_metadata, and of every provider
\* the list it answered to get_media, or nothing of it
C18_ResultLists ==
    ScrapeDone =>
        /\ ret.value.sources = sources
        /\ ret.value.metadata = merged
        /\ Range(queue) = ProvidersWith("Media")
        /\ \A p \in ProviderIds :
              FromProvider(ret.value.media, p) =
                  IF p \in ProvidersWith("Media") /\ IsOk(results[p])
                  THEN results[p].value ELSE <<>>

\* from the end of merge_metadata on, sources and the merged metadata stay
C18_SourcesKept ==
    (HasBestMatch /\ (MergeDone \/ pc = "media")) => (sources' = sources /\ merged' = merged)

\* C18: a scrape that has a best match returns Ok(ScrapeResult) whatever the
\* get_metadata and get_media calls answered; its sources are the enabled
\* Metadata providers whose get_metadata answered Ok, each once; its media are,
\* for every enabled Media provider whose get_media answered Ok, the list it
\* answered, entire, repeated entries included, and nothing else.
C18_ScrapeNeverFailsAfterMatch ==
    /\ [](C18_NeverAnError /\ C18_SourcesAreSuccesses /\ C18_ResultLists)
    /\ [][C18_SourcesKept]_vars

\* every get_metadata and get_media call of a scrape failed and it returned Ok
\* with empty sources and media
C18_Witness ==
    /\ ScrapeDone
    /\ InvokedWith("get_metadata") # {} /\ InvokedWith("get_media") # {}
    /\ \A p \in Range(queue) : ~IsOk(results[p])
    /\ ret = Ok([metadata |-> GameMetadataDefault, media |-> <<>>, sources |-> <<>>])

\* one get_media call failed, another answered a list with a repeated entry:
\* the scrape returned the list entire
C18_WitnessMedia ==
    /\ ScrapeDone
    /\ \E p, q \in Range(queue) : ~IsOk(results[p]) /\ IsOk(results[q])
    /\ Len(ret.value.media) = 3
    /\ ret.value.media[1] = ret.value.media[3]
    /\ ret.value.sources # <<>>

(***************************************************************************)
(* Properties of the direct calls.                                         *)
(***************************************************************************)
DirectDone == kind \in {"get_metadata", "get_media"} /\ pc = "done"

\* what the named provider may answer to the method
RepliesTo(method, p) == IF method = "get_metadata" THEN MetadataReplies(p) ELSE MediaReplies(p)

\* a direct call has either called nobody and failed with the not-found error,
\* or called one registered provider, with its own method, and returned one of
\* that provider's answers
C19_DirectResult ==
    DirectDone =>
        IF invoked = {}
        THEN ret = Err("Provider not found")
        ELSE /\ ret # Err("Provider not found")
             /\ \E p \in providers : /\ invoked = {<<p, kind>>}
                                     /\ ret \in RepliesTo(kind, p)

\* the step of a direct call on provider p that answers r
C19_DirectStep ==
    \A p \in ProviderIds :
        /\ \A r \in MetadataReplies(p) :
              get_metadata(p, r) =>
                  IF p \in providers THEN ret' = r /\ invoked' = {<<p, "get_metadata">>}
                  ELSE ret' = Err("Provider not found") /\ invoked' = {}
        /\ \A r \in MediaReplies(p) :
              get_media(p, r) =>
                  IF p \in providers THEN ret' = r /\ invoked' = {<<p, "get_media">>}
                  ELSE ret' = Err("Provider not found") /\ invoked' = {}

\* C19: get_metadata and get_media on a provider id that is not registered
\* fail with the not-found error and call no provider; on a registered id they
\* call that provider only and return its answer as it is, its error included.
C19_DirectPassThrough == [](C19_DirectResult) /\ [][C19_DirectStep]_vars

\* p1 was registered, disabled and unregistered; no provider is registered and
\* a direct get_metadata failed with the not-found error without a call
C19_Witness ==
    /\ kind = "get_metadata" /\ pc = "done"
    /\ "p1" \in disabledBy /\ providers = {}
    /\ invoked = {}
    /\ ret = Err("Provider not found")

\* a direct get_media on a registered provider returned the provider's error
C19_WitnessError ==
    /\ kind = "get_media" /\ pc = "done"
    /\ \E p \in providers : invoked = {<<p, "get_media">>}
    /\ ret = Err("provider")

(***************************************************************************)
(* Name matching (scraper/matcher.rs).  A name is a sequence of tokens:    *)
(* words, blanks, the four brackets, and file extensions with their dot.   *)
(***************************************************************************)
MaxNameLen == 3

\* let extensions = [..], in the order of the array
extensions ==
    <<".zip", ".7z", ".rar", ".iso", ".bin", ".cue", ".nes", ".sfc", ".smc", ".gba", ".gb",
      ".gbc", ".n64", ".z64", ".v64", ".nds", ".3ds", ".cia", ".xci", ".nsp", ".pbp", ".chd">>

RECURSIVE RemoveDelimited(_, _, _)
\* while let Some(start) = result.find(open) { if let Some(end) =
\* result[start..].find(close) { cut start..=start+end } else { break } }
RemoveDelimited(result, open, close) ==
    LET start == find(result, open) IN
    IF start = 0 THEN result
    ELSE LET end == find(SubSeq(result, start, Len(result)), close) IN
         IF end = 0 THEN result
         ELSE RemoveDelimited(SubSeq(result, 1, start - 1)
                                  \o SubSeq(result, start + end, Len(result)),
                              open, close)

\* str::ends_with for an extension, which is one token
ends_with(s, ext) == s # <<>> /\ s[Len(s)] = ext

RECURSIVE StripExtensions(_, _)
\* for ext in extensions { if result.to_lowercase().ends_with(ext) { cut it } }:
\* the iterations for the first half of the list, then those for the second half
\* on their outcome
StripExtensions(result, exts) ==
    IF exts = <<>> THEN result
    ELSE IF Len(exts) = 1
         THEN IF ends_with(to_lowercase(result), Head(exts))
              THEN SubSeq(result, 1, Len(result) - 1) ELSE result
         ELSE LET half == Len(exts) \div 2 IN
              CHOOSE out \in {StripExtensions(first, SubSeq(exts, half + 1, Len(exts))) :
                                  first \in {StripExtensions(result, SubSeq(exts, 1, half))}} :
                  TRUE

normalize_game_name(name) ==
    LET no_parens == RemoveDelimited(name, "(", ")")
        no_brackets == RemoveDelimited(no_parens, "[", "]")
        no_extension == StripExtensions(no_brackets, extensions)
    IN trim(join(split_whitespace(no_extension), SP))

\* the tokens of the names of the model
NameTokens == {"a", SP, "(", ")", "[", "]", ".zip", ".gba", ".ZIP"}

NameInputsOfLen(n) == [1..n -> NameTokens]

\* parse_game_name_from_filename(filename), on the first file name of a run
parse_game_name_from_filename(filename) ==
    /\ raw_name = <<>> /\ normalized = <<>>
    /\ raw_name' = filename
    /\ normalized' = normalize_game_name(filename)
    /\ UNCHANGED <<regVars, opVars, pegVars, lockVars, simVars, rankVars>>

\* calculate_confidence normalizes the name of a query (line 128), here a name
\* that normalize_game_name returned before
normalize_query_name ==
    /\ raw_name' = normalized
    /\ normalized' = normalize_game_name(normalized)
    /\ UNCHANGED <<regVars, opVars, pegVars, lockVars, simVars, rankVars>>

NextMatcher ==
    \/ \E n \in 0..MaxNameLen : \E filename \in NameInputsOfLen(n) :
          parse_game_name_from_filename(filename)
    \/ normalize_query_name

SpecMatcher == Init /\ [][NextMatcher]_vars

(***************************************************************************)
(* Properties of the matcher.                                              *)
(***************************************************************************)
\* C20: a name that normalize_game_name returned is a fixed point of it:
\* normalize_game_name(normalize_game_name(x)) = normalize_game_name(x).
C20_NormalizeIdempotent == normalize_game_name(normalized) = normalized

(***************************************************************************)
(* Similarity scores (scraper/matcher.rs, scraper/local_cn.rs).  A name is *)
(* a sequence of chars; an f32 score is the exact fraction                 *)
(* <<numerator, denominator>> of the value the code computes.              *)
(***************************************************************************)
\* longest query / candidate name of the model
MaxQueryLen == 3
MaxTargetLen == 2

RECURSIVE GCD(_, _)
GCD(a, b) == IF b = 0 THEN a ELSE GCD(b, a % b)
\* n / d in lowest terms
Frac(n, d) == <<n \div GCD(n, d), d \div GCD(n, d)>>
Zero == Frac(0, 1)
One == Frac(1, 1)
\* a < b, a = b, a > b on f32 values
Less(a, b) == a[1] * b[2] < b[1] * a[2]
Same(a, b) == a[1] * b[2] = b[1] * a[2]
Exceeds(a, b) == Less(b, a)
\* a maximum that keeps its left operand
f32_left(a, b) == a
\* f32::max, f32::min
f32_max(a, b) == IF Less(a, b) THEN b ELSE a
f32_min(a, b) == IF Less(b, a) THEN b ELSE a

\* a char outside ASCII is written as its code point; the set of chars of a string
Chars(s) == {s[i] : i \in DOMAIN s}
Count(S) == Cardinality(S)

\* lines 33-36: the window of s2 in which s1[i] may match (1-based)
match_distance(s1_chars, s2_chars) ==
    LET longest == IF Len(s1_chars) > Len(s2_chars) THEN Len(s1_chars) ELSE Len(s2_chars)
        half == longest \div 2
    IN IF half = 0 THEN 0 ELSE half - 1

RECURSIVE FindMatches(_, _, _, _, _)
\* lines 44-58: for each i the first unmatched j of the window with the same char
FindMatches(s1_chars, s2_chars, i, s1_matches, s2_matches) ==
    IF i > Len(s1_chars) THEN [s1 |-> s1_matches, s2 |-> s2_matches]
    ELSE LET d == match_distance(s1_chars, s2_chars)
             start == IF i - d < 1 THEN 1 ELSE i - d
             end == IF i + d > Len(s2_chars) THEN Len(s2_chars) ELSE i + d
             free == {j \in start..end : j \notin s2_matches /\ s1_chars[i] = s2_chars[j]}
         IN IF free = {} THEN FindMatches(s1_chars, s2_chars, i + 1, s1_matches, s2_matches)
            ELSE LET j == CHOOSE j \in free : \A k \in free : j <= k
                 IN FindMatches(s1_chars, s2_chars, i + 1,
                                s1_matches \cup {i}, s2_matches \cup {j})

\* the chars of s at the indices of `matches`, in order
Matched(s, matches) == SelectSeq([i \in DOMAIN s |-> IF i \in matches THEN <<s[i]>> ELSE <<>>],
                                 LAMBDA c : c # <<>>)

\* lines 24-85
jaro_similarity(s1, s2) ==
    IF s1 = <<>> /\ s2 = <<>> THEN One
    ELSE IF s1 = <<>> \/ s2 = <<>> THEN Zero
    ELSE LET s1_chars == to_lowercase(s1)
             s2_chars == to_lowercase(s2)
             m == FindMatches(s1_chars, s2_chars, 1, {}, {})
             matches == Count(m.s1)
             m1 == Matched(s1_chars, m.s1)
             m2 == Matched(s2_chars, m.s2)
             transpositions == Count({k \in 1..matches : m1[k] # m2[k]})
             s1_len == Len(s1_chars)
             s2_len == Len(s2_chars)
         IN IF matches = 0 THEN Zero
            ELSE \* (m/l1 + m/l2 + (m - t/2)/m) / 3
                 Frac(2 * matches * matches * s2_len + 2 * matches * matches * s1_len
                          + (2 * matches - transpositions) * s1_len * s2_len,
                      6 * matches * s1_len * s2_len)

\* char::eq_ignore_ascii_case
eq_ignore_ascii_case(a, b) == Lower(a) = Lower(b)

\* lines 8-21: jaro + prefix_len * 0.1 * (1 - jaro), at most 1
jaro_winkler_similarity(s1, s2) ==
    LET jaro == jaro_similarity(s1, s2)
        shorter == IF Len(s1) < Len(s2) THEN Len(s1) ELSE Len(s2)
        zipped == IF shorter < 4 THEN shorter ELSE 4
        prefix_len == Count({n \in 1..zipped :
                                 \A k \in 1..n : eq_ignore_ascii_case(s1[k], s2[k])})
        winkler == Frac(10 * jaro[1] + prefix_len * (jaro[2] - jaro[1]), 10 * jaro[2])
    IN f32_min(winkler, One)

RECURSIVE ExtractNumbersFrom(_, _, _)
\* local_cn.rs lines 22-40
ExtractNumbersFrom(s, numbers, current_num) ==
    IF s = <<>>
    THEN IF current_num # <<>> THEN Append(numbers, current_num) ELSE numbers
    ELSE IF is_ascii_digit(Head(s))
         THEN ExtractNumbersFrom(Tail(s), numbers, Append(current_num, Head(s)))
         ELSE IF current_num # <<>>
              THEN ExtractNumbersFrom(Tail(s), Append(numbers, current_num), <<>>)
              ELSE ExtractNumbersFrom(Tail(s), numbers, current_num)

extract_numbers(s) == ExtractNumbersFrom(s, <<>>, <<>>)

remove_numbers(s) == SelectSeq(s, LAMBDA c : ~is_ascii_digit(c))

RECURSIVE AbbreviationFrom(_, _, _)
\* lines 48-67
AbbreviationFrom(s, abbr, prev_was_lower) ==
    IF s = <<>> THEN abbr
    ELSE LET c == Head(s) IN
         IF is_ascii_uppercase(c) THEN AbbreviationFrom(Tail(s), Append(abbr, c), FALSE)
         ELSE IF is_ascii_lowercase(c)
              THEN AbbreviationFrom(Tail(s),
                                    IF ~prev_was_lower /\ abbr = <<>>
                                    THEN Append(abbr, to_ascii_uppercase(c)) ELSE abbr,
                                    TRUE)
              ELSE AbbreviationFrom(Tail(s), abbr, FALSE)

extract_abbreviation(s) == AbbreviationFrom(s, <<>>, FALSE)

\* a filter that removes nothing
keep_english(s) == s

remove_english(s) == SelectSeq(s, LAMBDA c : ~is_ascii_alphabetic(c))

extract_english(s) == SelectSeq(s, LAMBDA c : is_ascii_alphabetic(c))

\* char::to_pinyin().plain() for the chars of the model; a char without a
\* reading stays as it is
Pinyin(c) ==
    CASE c \in {"U+9F99", "U+9F8D"} -> <<"l", "o", "n", "g">>
      [] c \in {"U+9A6C", "U+5988", "U+99AC"} -> <<"m", "a">>
      [] c = "U+795E" -> <<"s", "h", "e", "n">>
      [] c \in {"U+6E38", "U+904A"} -> <<"y", "o", "u">>
      [] OTHER -> <<c>>

RECURSIVE to_pinyin_string(_)
\* lines 80-91
to_pinyin_string(s) ==
    IF s = <<>> THEN <<>> ELSE Pinyin(Head(s)) \o to_pinyin_string(Tail(s))

\* lines 94-112
jaccard_char_similarity(s1, s2) ==
    LET chars1 == {c \in Chars(s1) : ~is_whitespace(c)}
        chars2 == {c \in Chars(s2) : ~is_whitespace(c)}
        intersection == Count(chars1 \cap chars2)
        union == Count(chars1 \cup chars2)
    IN IF chars1 = {} /\ chars2 = {} THEN One
       ELSE IF union = 0 THEN Zero ELSE Frac(intersection, union)

\* lines 115-137
pinyin_jaccard_similarity(s1, s2) ==
    LET py1 == to_pinyin_string(s1)
        py2 == to_pinyin_string(s2)
        chars1 == {c \in Chars(py1) : is_ascii_alphabetic(c)}
        chars2 == {c \in Chars(py2) : is_ascii_alphabetic(c)}
        intersection == Count(chars1 \cap chars2)
        union == Count(chars1 \cup chars2)
    IN IF chars1 = {} /\ chars2 = {} THEN One
       ELSE IF union = 0 THEN Zero ELSE Frac(intersection, union)

\* lines 140-168: the replacements, char by char
Homophones ==
    [c \in {"U+975E", "U+98DB", "U+6975", "U+6230", "U+50B3", "U+8AAC", "U+6A5F", "U+8ECA",
            "U+6771", "U+5CF6", "U+570B", "U+9F8D", "U+99AC", "U+96FB", "U+8A18", "U+6642",
            "U+958B", "U+9580", "U+898B", "U+9577", "U+7121", "U+70BA", "U+5F9E", "U+982D",
            "U+5BE6", "U+6A02"} |->
        CASE c = "U+975E" -> "U+83F2" [] c = "U+98DB" -> "U+98DE" [] c = "U+6975" -> "U+6781"
          [] c = "U+6230" -> "U+6218" [] c = "U+50B3" -> "U+4F20" [] c = "U+8AAC" -> "U+8BF4"
          [] c = "U+6A5F" -> "U+673A" [] c = "U+8ECA" -> "U+8F66" [] c = "U+6771" -> "U+4E1C"
          [] c = "U+5CF6" -> "U+5C9B" [] c = "U+570B" -> "U+56FD" [] c = "U+9F8D" -> "U+9F99"
          [] c = "U+99AC" -> "U+9A6C" [] c = "U+96FB" -> "U+7535" [] c = "U+8A18" -> "U+8BB0"
          [] c = "U+6642" -> "U+65F6" [] c = "U+958B" -> "U+5F00" [] c = "U+9580" -> "U+95E8"
          [] c = "U+898B" -> "U+89C1" [] c = "U+9577" -> "U+957F" [] c = "U+7121" -> "U+65E0"
          [] c = "U+70BA" -> "U+4E3A" [] c = "U+5F9E" -> "U+4ECE" [] c = "U+982D" -> "U+5934"
          [] c = "U+5BE6" -> "U+5B9E" [] c = "U+6A02" -> "U+4E50"]

Homophone(c) == IF c \in DOMAIN Homophones THEN Homophones[c] ELSE c

normalize_homophones(s) == IF s = <<>> THEN <<>> ELSE [i \in DOMAIN s |-> Homophone(s[i])]

prefixes == <<<<"U+795E", "U+6E38">>, <<"U+795E", "U+904A">>, <<"i", "q", "u", "e">>, <<"i", "Q", "u", "e">>>>

\* str::starts_with, str::contains
starts_with(s, prefix) == Len(prefix) <= Len(s) /\ SubSeq(s, 1, Len(prefix)) = prefix
contains(s, sub) == \E i \in 1..(Len(s) + 1) : starts_with(SubSeq(s, i, Len(s)), sub)

RECURSIVE RemoveFirstPrefix(_, _)
\* lines 171-181: the first prefix the lowercased string starts with is cut off
RemoveFirstPrefix(result, ps) ==
    IF ps = <<>> THEN result
    ELSE IF starts_with(to_lowercase(result), to_lowercase(Head(ps)))
         THEN trim_start(SubSeq(result, Len(Head(ps)) + 1, Len(result)))
         ELSE RemoveFirstPrefix(result, Tail(ps))

remove_common_prefixes(s) == RemoveFirstPrefix(s, prefixes)

\* a veto that looks at single digits instead of whole numbers
NumbersDifferByDigit(query_normalized, target_normalized) ==
    LET query_digits == {c \in Chars(query_normalized) : is_ascii_digit(c)}
        target_digits == {c \in Chars(target_normalized) : is_ascii_digit(c)}
    IN /\ query_digits # {}
       /\ target_digits # {}
       /\ query_digits \cap target_digits = {}

\* lines 196-203: both have numbers and they share none
NumbersDiffer(query_normalized, target_normalized) ==
    LET query_nums == extract_numbers(query_normalized)
        target_nums == extract_numbers(target_normalized)
    IN /\ query_nums # <<>>
       /\ target_nums # <<>>
       /\ ~ \E i \in DOMAIN query_nums : query_nums[i] \in Range(target_nums)

\* lines 209-224: the English parts are the same, or one is the abbreviation
\* of the other
eng_abbr_match(query_clean, target_clean, query_normalized, target_normalized) ==
    LET query_eng == extract_english(query_normalized)
        target_eng == extract_english(target_normalized)
        query_abbr == extract_abbreviation(query_clean)
    IN /\ query_eng # <<>>
       /\ target_eng # <<>>
       /\ \/ to_lowercase(query_eng) = to_lowercase(target_eng)
          \/ to_lowercase(query_abbr) = to_lowercase(target_eng)
          \/ to_lowercase(query_eng) = to_lowercase(extract_abbreviation(target_clean))

\* lines 241-258: final_score out of the three similarities and the two flags
boost_score(jaccard_score, pinyin_score, jw_score, abbr_match, is_substring) ==
    LET core == f32_max(f32_max(jaccard_score, pinyin_score), jw_score)
        with_abbr == IF abbr_match /\ Exceeds(core, Frac(1, 2))
                     THEN f32_max(core, Frac(19, 20)) ELSE core
        with_substring == IF is_substring /\ Exceeds(with_abbr, Frac(1, 2))
                          THEN f32_max(with_abbr, Frac(9, 10)) ELSE with_abbr
    IN IF Exceeds(jaccard_score, Frac(4, 5)) \/ Exceeds(pinyin_score, Frac(4, 5))
       THEN f32_max(with_substring, Frac(17, 20)) ELSE with_substring

\* lines 226-258: the score of the core names
core_score(query_cn_core, target_cn_core, abbr_match) ==
    boost_score(jaccard_char_similarity(query_cn_core, target_cn_core),
                pinyin_jaccard_similarity(query_cn_core, target_cn_core),
                jaro_winkler_similarity(query_cn_core, target_cn_core),
                abbr_match,
                \/ contains(query_cn_core, target_cn_core)
                \/ contains(target_cn_core, query_cn_core))

\* lines 191-261, for the names without their prefixes
clean_similarity(query_clean, target_clean) ==
    LET query_normalized == normalize_homophones(to_lowercase(query_clean))
        target_normalized == normalize_homophones(to_lowercase(target_clean))
    IN IF NumbersDiffer(query_normalized, target_normalized) THEN Zero
       ELSE core_score(remove_english(remove_numbers(query_normalized)),
                       remove_english(remove_numbers(target_normalized)),
                       eng_abbr_match(query_clean, target_clean,
                                      query_normalized, target_normalized))

\* lines 186-261
smart_cn_similarity(query, target) ==
    clean_similarity(remove_common_prefixes(query), remove_common_prefixes(target))

\* the chars of the names of the model
CnChars == {"1", "2", "a", "B", "U+9F8D", "U+9F99", "U+9A6C", SP}
CnNames(n) == UNION {[1..k -> CnChars] : k \in 0..n}
\* a query may carry the iQue prefix
CnQueries == CnNames(MaxQueryLen) \cup {<<"U+795E", "U+6E38">> \o s : s \in CnNames(MaxTargetLen)}
CnTargets == CnNames(MaxTargetLen)

\* local_cn.rs line 397: one call of smart_cn_similarity
score_cn_smart(query, target) ==
    /\ cn_query' = query
    /\ cn_target' = target
    /\ final_score' = smart_cn_similarity(query, target)
    /\ UNCHANGED <<regVars, opVars, pegVars, lockVars, raw_name, normalized, rankVars>>

\* one call in a run
NextSimilarity ==
    /\ final_score = NoScore
    /\ \E query \in CnQueries : \E target \in CnTargets : score_cn_smart(query, target)

SpecSimilarity == Init /\ [][NextSimilarity]_vars

(***************************************************************************)
(* Properties of smart_cn_similarity.                                      *)
(***************************************************************************)
Scored == final_score # NoScore

\* the maximal digit runs of a name
DigitRuns(s) == Range(extract_numbers(s))

\* C21: when the query and the candidate both contain a digit run and no digit
\* run of the query is a digit run of the candidate, the score is exactly 0.0,
\* whatever else the two names contain.
C21_NumericVeto ==
    (/\ Scored
     /\ DigitRuns(cn_query) # {}
     /\ DigitRuns(cn_target) # {}
     /\ DigitRuns(cn_query) \cap DigitRuns(cn_target) = {})
        => final_score = Zero

\* two names that are the same but for the trailing digit, with a score of zero
C21_Witness ==
    /\ Scored
    /\ cn_query = <<"U+9F99", "1">>
    /\ cn_target = <<"U+9F99", "2">>
    /\ final_score = Zero

\* the numeric veto: both names have digit runs and share none
Vetoed == DigitRuns(cn_query) # {} /\ DigitRuns(cn_target) # {}
              /\ DigitRuns(cn_query) \cap DigitRuns(cn_target) = {}

\* the core text of a name: prefix cut, lowercased, homophones replaced, digits
\* and ASCII letters removed
CoreText(s) ==
    normalize_homophones(to_lowercase(
        SelectSeq(remove_common_prefixes(s),
                  LAMBDA c : ~is_ascii_digit(c) /\ ~is_ascii_alphabetic(c))))

\* the ASCII letters of a name, lowercased
EnglishOf(s) == to_lowercase(SelectSeq(remove_common_prefixes(s), is_ascii_alphabetic))

CharJaccard == jaccard_char_similarity(CoreText(cn_query), CoreText(cn_target))
PinyinJaccard == pinyin_jaccard_similarity(CoreText(cn_query), CoreText(cn_target))
CoreJaroWinkler == jaro_winkler_similarity(CoreText(cn_query), CoreText(cn_target))

AtLeast(a, b) == ~Less(a, b)

\* both names have ASCII letters, and they are the same letters or the
\* abbreviation of one name is the letters of the other
AbbreviationFlag ==
    /\ EnglishOf(cn_query) # <<>>
    /\ EnglishOf(cn_target) # <<>>
    /\ \/ EnglishOf(cn_query) = EnglishOf(cn_target)
       \/ to_lowercase(extract_abbreviation(remove_common_prefixes(cn_query)))
              = EnglishOf(cn_target)
       \/ EnglishOf(cn_query)
              = to_lowercase(extract_abbreviation(remove_common_prefixes(cn_target)))

CoreSubstring ==
    \/ contains(CoreText(cn_query), CoreText(cn_target))
    \/ contains(CoreText(cn_target), CoreText(cn_query))

\* the bounds of C25 on a score, given the three core similarities
ScoreBounds(score, jaccard, pinyin, jw) ==
    LET exceeds_half == Exceeds(jaccard, Frac(1, 2)) \/ Exceeds(pinyin, Frac(1, 2))
                            \/ Exceeds(jw, Frac(1, 2))
    IN /\ AtLeast(score, Zero)
       /\ AtLeast(One, score)
       /\ AtLeast(score, jaccard)
       /\ AtLeast(score, pinyin)
       /\ AtLeast(score, jw)
       /\ (exceeds_half /\ AbbreviationFlag) => AtLeast(score, Frac(19, 20))
       /\ (exceeds_half /\ CoreSubstring) => AtLeast(score, Frac(9, 10))
       /\ (Exceeds(jaccard, Frac(4, 5)) \/ Exceeds(pinyin, Frac(4, 5)))
              => AtLeast(score, Frac(17, 20))

\* C25: without the numeric veto the score lies in [0, 1] and is at least each
\* of the three core similarities (char Jaccard, Pinyin Jaccard, Jaro-Winkler);
\* it is at least 0.95 when the abbreviation flag is set and the maximum of the
\* three exceeds 0.5, at least 0.9 when one core is a substring of the other and
\* that maximum exceeds 0.5, and at least 0.85 when a Jaccard similarity exceeds 0.8.
C25_ScoreBounds ==
    (Scored /\ ~Vetoed) =>
        ScoreBounds(final_score, CharJaccard, PinyinJaccard, CoreJaroWinkler)

\* the three core similarities lie between 0.5 and 0.85, in ascending order
BetweenHalfAndBoost(jaccard, pinyin, jw) ==
    /\ Less(jaccard, pinyin)
    /\ Less(pinyin, jw)
    /\ Exceeds(jw, Frac(1, 2))
    /\ ~Exceeds(jw, Frac(17, 20))

\* the abbreviation flag lifts a score whose core similarities are all below
\* 0.95, the greatest of them above 0.5, to 0.95
C25_Witness ==
    /\ Scored
    /\ Same(final_score, Frac(19, 20))
    /\ ~Vetoed
    /\ AbbreviationFlag
    /\ BetweenHalfAndBoost(CharJaccard, PinyinJaccard, CoreJaroWinkler)

\* the substring rule lifts a score to 0.9
C25_WitnessSubstring ==
    /\ Scored
    /\ Same(final_score, Frac(9, 10))
    /\ ~Vetoed
    /\ ~AbbreviationFlag
    /\ CoreSubstring
    /\ ~Exceeds(CoreJaroWinkler, Frac(17, 20))

\* a name made of ASCII digits, ASCII letters and whitespace only
NoCoreText(s) ==
    \A i \in DOMAIN s : is_ascii_digit(s[i]) \/ is_ascii_alphabetic(s[i]) \/ is_whitespace(s[i])

\* C30: when neither name has a non-whitespace char besides ASCII digits and
\* letters, and the numeric veto does not fire, the score is 1.0 whatever the
\* letters are, which is above the 0.75 that search accepts.
C30_LatinNamesScoreOne ==
    (Scored /\ NoCoreText(cn_query) /\ NoCoreText(cn_target) /\ ~Vetoed)
        => Same(final_score, One) /\ Exceeds(final_score, Frac(3, 4))

\* two Latin names without a common letter
C30_Witness ==
    /\ Scored
    /\ cn_query = <<"a", "a">>
    /\ cn_target = <<"B">>
    /\ Same(final_score, One)

(***************************************************************************)
(* calculate_confidence (scraper/matcher.rs).                              *)
(***************************************************************************)
\* longest query name / result name of the model
MaxRankQueryLen == 3
MaxRankResultLen == 2

\* a + b and a * b on f32 values
Plus(a, b) == Frac(a[1] * b[2] + b[1] * a[2], a[2] * b[2])
Times(a, b) == Frac(a[1] * b[1], a[2] * b[2])

\* a confidence that compares the systems as they are written
calculate_confidence_exact_system(query, result) ==
    LET query_name == normalize_game_name(query.name)
        result_name == normalize_game_name(result.name)
        name_similarity == jaro_winkler_similarity(query_name, result_name)
        base == Times(name_similarity, Frac(7, 10))
        with_name == IF to_lowercase(query_name) = to_lowercase(result_name)
                     THEN Plus(base, Frac(2, 10)) ELSE base
        score == IF /\ is_some(query.system)
                    /\ is_some(result.system)
                    /\ unwrap(query.system) = unwrap(result.system)
                 THEN Plus(with_name, Frac(1, 10)) ELSE with_name
    IN f32_min(score, One)

\* lines 127-150
calculate_confidence(query, result) ==
    LET query_name == normalize_game_name(query.name)
        result_name == normalize_game_name(result.name)
        name_similarity == jaro_winkler_similarity(query_name, result_name)
        base == Times(name_similarity, Frac(7, 10))
        with_name == IF to_lowercase(query_name) = to_lowercase(result_name)
                     THEN Plus(base, Frac(2, 10)) ELSE base
        score == IF /\ is_some(query.system)
                    /\ is_some(result.system)
                    /\ to_lowercase(unwrap(query.system)) = to_lowercase(unwrap(result.system))
                 THEN Plus(with_name, Frac(1, 10)) ELSE with_name
    IN f32_min(score, One)

\* the chars of the names, and the names and systems of the model
RankChars == {"a", "A", "(", ")", ".zip"}
RankNames(n) == UNION {[1..k -> RankChars] : k \in 0..n}
QuerySystems == {NoneOpt, Some(<<"n", "e", "s">>)}
ResultSystems == {NoneOpt, Some(<<"N", "E", "S">>), Some(<<"s", "n", "e", "s">>)}

\* rank_results, lines 155-157, for one result: one call of calculate_confidence
rank_results(query, result) ==
    /\ rank_query' = query
    /\ rank_result' = result
    /\ rank_confidence' = calculate_confidence(query, result)
    /\ UNCHANGED <<regVars, opVars, pegVars, lockVars, raw_name, normalized, simVars>>

\* one call in a run
NextRank ==
    /\ rank_confidence = NoScore
    /\ \E query_name \in RankNames(MaxRankQueryLen) : \E query_system \in QuerySystems :
       \E result_name \in RankNames(MaxRankResultLen) : \E result_system \in ResultSystems :
          rank_results([name |-> query_name, system |-> query_system],
                       [name |-> result_name, system |-> result_system])

SpecRank == Init /\ [][NextRank]_vars

(***************************************************************************)
(* Properties of calculate_confidence.                                     *)
(***************************************************************************)
Ranked == rank_confidence # NoScore

NamesMatch ==
    to_lowercase(normalize_game_name(rank_query.name))
        = to_lowercase(normalize_game_name(rank_result.name))

SystemsMatch ==
    /\ rank_query.system # NoneOpt
    /\ rank_result.system # NoneOpt
    /\ to_lowercase(rank_query.system[1]) = to_lowercase(rank_result.system[1])

\* 0.7 * similarity + 0.2 * name_bonus + 0.1 * system_bonus, in tenths of the
\* denominator of the similarity
Weighted(similarity, name_bonus, system_bonus) ==
    Frac(7 * similarity[1] + (2 * name_bonus + system_bonus) * similarity[2],
         10 * similarity[2])

Clamped(x) == IF Less(x, Zero) THEN Zero ELSE IF Less(One, x) THEN One ELSE x

C22_WitnessSimilarityOnly ==
    /\ Ranked
    /\ ~NamesMatch
    /\ ~SystemsMatch
    /\ Less(Zero, rank_confidence)
    /\ Less(rank_confidence, Frac(7, 10))

(***************************************************************************)
(* parse_pegasus_content on texts of a few lines (scraper/pegasus.rs).     *)
(***************************************************************************)
\* most lines of a text
MaxLines == 4

\* the lines of the model: two game lines, a collection line, two key lines (one
\* key that games and collections both have), a continuation line, a paragraph
\* break, a comment, a blank line and a line without a colon
LineInputs ==
    {<<"game", COLON, SP, "g1">>, <<"game", COLON, SP, "g2">>,
     <<"collection", COLON, SP, "c1">>,
     <<"files", COLON, SP, "f1">>, <<"description", COLON, SP, "d1">>,
     <<SP, SP, "w1">>, <<SP, SP, DOT>>,
     <<HASH, SP, "w1">>, <<SP>>, <<"w2">>}

RECURSIVE TextOf(_)
\* the text with these lines, each ended by a line feed
TextOf(ls) == IF ls = <<>> THEN <<>> ELSE Head(ls) \o <<NL>> \o TextOf(Tail(ls))

TextInputs == {TextOf(ls) : ls \in UNION {[1..n -> LineInputs] : n \in 0..MaxLines}}

\* parse_pegasus_file, lines 139-143: one call of parse_pegasus_content
parse_pegasus_file(text) ==
    /\ parse_input' = text
    /\ parse_result' = parse_pegasus_content(text)
    /\ UNCHANGED <<regVars, opVars, lockVars, matchVars, exists, content, calls, before,
                   exported, saveVars>>

\* one call in a run
NextParser ==
    /\ parse_result = NoParse
    /\ \E text \in TextInputs : parse_pegasus_file(text)

SpecParser == Init /\ [][NextParser]_vars

(***************************************************************************)
(* Properties of the parser.                                               *)
(***************************************************************************)
Parsed == parse_result # NoParse

InputLines == lines(parse_input)

\* the kinds of lines
Skipped(l) == trim(l) = <<>> \/ Head(l) = HASH
Continuation(l) == ~Skipped(l) /\ Head(l) \in {SP, TAB}
KeyLine(l) == ~Skipped(l) /\ ~Continuation(l) /\ find(l, COLON) # 0
KeyOf(l) == to_lowercase(trim(SubSeq(l, 1, find(l, COLON) - 1)))
ValueOf(l) == trim(SubSeq(l, find(l, COLON) + 1, Len(l)))
GameLine(l) == KeyLine(l) /\ KeyOf(l) = <<"game">>
CollectionLine(l) == KeyLine(l) /\ KeyOf(l) = <<"collection">>
FieldLine(l) == KeyLine(l) /\ ~GameLine(l) /\ ~CollectionLine(l)

\* the indices of the game lines and of the collection lines
GameIdx == {i \in DOMAIN InputLines : GameLine(InputLines[i])}
CollectionIdx == {i \in DOMAIN InputLines : CollectionLine(InputLines[i])}

\* the n-th index of a set of indices, and the greatest
Nth(S, n) == CHOOSE i \in S : Cardinality({j \in S : j < i}) = n - 1
Greatest(S) == CHOOSE i \in S : \A j \in S : j <= i

\* the game or collection line that opened the record a line belongs to: the
\* last one before it, 0 when there is none
HeaderOf(i) ==
    LET before_i == {j \in GameIdx \cup CollectionIdx : j < i}
    IN IF before_i = {} THEN 0 ELSE Greatest(before_i)

\* the lines with this key in the record opened at line h
FieldLines(h, key) ==
    {i \in DOMAIN InputLines :
        FieldLine(InputLines[i]) /\ KeyOf(InputLines[i]) = key /\ HeaderOf(i) = h}

\* the record opened at line h has the files of the last `files:` line of its
\* block, and none without such a line
FilesOf(record, h) ==
    IF FieldLines(h, <<"files">>) = {} THEN record.files = <<>>
    ELSE /\ record.files # <<>>
         /\ Head(record.files) = ValueOf(InputLines[Greatest(FieldLines(h, <<"files">>))])

\* a game has a description exactly when its block has a `description:` line
DescriptionOf(game, h) ==
    IF FieldLines(h, <<"description">>) = {} THEN game.description = NoneOpt
    ELSE /\ game.description # NoneOpt
         /\ <<Head(game.description[1])>>
                = ValueOf(InputLines[Greatest(FieldLines(h, <<"description">>))])

RECURSIVE WithoutSkipped(_)
\* the text without its comment lines and blank lines
WithoutSkipped(ls) ==
    IF ls = <<>> THEN <<>>
    ELSE IF Skipped(Head(ls)) THEN WithoutSkipped(Tail(ls))
         ELSE <<Head(ls)>> \o WithoutSkipped(Tail(ls))

\* C23: the result has one Game per `game:` line and one Collection per
\* `collection:` line, in file order; a field line belongs to the Game opened
\* last since the last `collection:` line, else to the open Collection, else to
\* nothing; comment lines and blank lines change no record.
C23_RecordsFollowHeaderLines ==
    Parsed =>
        /\ Len(parse_result.games) = Cardinality(GameIdx)
        /\ Len(parse_result.collections) = Cardinality(CollectionIdx)
        /\ \A n \in DOMAIN parse_result.games :
              /\ parse_result.games[n].name = ValueOf(InputLines[Nth(GameIdx, n)])
              /\ FilesOf(parse_result.games[n], Nth(GameIdx, n))
              /\ DescriptionOf(parse_result.games[n], Nth(GameIdx, n))
        /\ \A n \in DOMAIN parse_result.collections :
              /\ parse_result.collections[n].name
                     = ValueOf(InputLines[Nth(CollectionIdx, n)])
              /\ FilesOf(parse_result.collections[n], Nth(CollectionIdx, n))
        /\ parse_result = parse_pegasus_content(TextOf(WithoutSkipped(InputLines)))

\* a collection, a field line for it, a game that closes it and a field line
\* for the game
C23_Witness ==
    /\ Parsed
    /\ InputLines = <<<<"collection", COLON, SP, "c1">>, <<"files", COLON, SP, "f1">>,
                      <<"game", COLON, SP, "g2">>, <<"files", COLON, SP, "f1">>>>
    /\ Len(parse_result.games) = 1
    /\ Len(parse_result.collections) = 1
    /\ parse_result.games[1].files = <<<<"f1">>>>
    /\ parse_result.collections[1].files = <<<<"f1">>>>

\* two games in file order with a comment between them, and a collection after
\* them
C23_WitnessOrder ==
    /\ Parsed
    /\ InputLines = <<<<"game", COLON, SP, "g2">>, <<HASH, SP, "w1">>,
                      <<"game", COLON, SP, "g1">>, <<"collection", COLON, SP, "c1">>>>
    /\ Len(parse_result.games) = 2
    /\ parse_result.games[1].name = <<"g2">>
    /\ parse_result.games[2].name = <<"g1">>

\* the key line a continuation line continues: the last key line before it, 0
\* when there is none
PrecedingKeyLine(c) ==
    LET before_c == {i \in DOMAIN InputLines : i < c /\ KeyLine(InputLines[i])}
    IN IF before_c = {} THEN 0 ELSE Greatest(before_c)

\* the continuation lines of key line i, in file order
ContinuationsOf(i) ==
    SelectSeq([c \in DOMAIN InputLines |->
                  IF Continuation(InputLines[c]) /\ PrecedingKeyLine(c) = i
                  THEN InputLines[c] ELSE <<>>],
              LAMBDA l : l # <<>>)

RECURSIVE Continued(_, _)
\* a value continued by these lines: a paragraph break for `.`, else the
\* trimmed text after a joining space (after nothing when the value is empty)
Continued(value, conts) ==
    IF conts = <<>> THEN value
    ELSE Continued(IF trim(Head(conts)) = <<DOT>> THEN value \o <<NL, NL>>
                   ELSE IF value = <<>> THEN trim(Head(conts))
                   ELSE value \o <<SP>> \o trim(Head(conts)),
                   Tail(conts))

CompletedValue(i) == Continued(ValueOf(InputLines[i]), ContinuationsOf(i))

\* C24: a line that begins with a space or a tab continues the value of the key
\* line before it (its trimmed text after a joining space, a paragraph break for
\* `.`), and the record gets the completed value: the name of a game or of a
\* collection, and the description of a game, are the completed values of
\* their lines.
C24_ContinuationCompletesValue ==
    Parsed =>
        /\ \A n \in DOMAIN parse_result.games :
              LET h == Nth(GameIdx, n)
                  described == FieldLines(h, <<"description">>)
              IN /\ parse_result.games[n].name = CompletedValue(h)
                 /\ described # {} =>
                        parse_result.games[n].description
                            = Some(CompletedValue(Greatest(described)))
        /\ \A n \in DOMAIN parse_result.collections :
              parse_result.collections[n].name = CompletedValue(Nth(CollectionIdx, n))


(***************************************************************************)
(* write_pegasus_file with a list of two new Games in one call, as the     *)
(* callers that pass a whole list do.                                      *)
(***************************************************************************)
BatchGames ==
    {[[PegasusGameDefault EXCEPT !.name = n] EXCEPT !.file = Some(Word(f))] :
        n \in NameInputs, f \in {"a", "b", "c"}}

NextBatch ==
    \E g \in BatchGames : \E h \in BatchGames : \E merge \in BOOLEAN :
        write_pegasus_file(<<g, h>>, ExportOptions(TRUE), merge)

SpecBatch == Init /\ [][NextBatch]_vars

\* no two Games of the list have the same file-key
DistinctKeys(games) ==
    \A i \in DOMAIN games : \A j \in DOMAIN games :
        (i # j /\ is_some(file_key(games[i]))) => file_key(games[i]) # file_key(games[j])

\* C26: after write_pegasus_file in merge mode on an existing file whose Games
\* have pairwise distinct file-keys, no two Games of the resulting file have the
\* same file-key, also when the new Games of the call include two with the same
\* file-key.
C26_MergeKeepsKeysDistinct ==
    (MergeWrite /\ DistinctKeys(ExistingGames)) => DistinctKeys(ResultGames)


(***************************************************************************)
(* set_priority and the enabled flag.                                      *)
(***************************************************************************)
\* the enabled flag register(id) gives id when the persisted settings are `saved`
EnabledOnRegister(saved, id) ==
    IF saved[id] # NoConfig THEN saved[id].enabled ELSE ProviderConfigDefault.enabled

\* C27: a set_priority(id, p) step changes no enabled flag: the in-memory config
\* of id keeps its enabled flag, and a register(id) after the step loads the
\* enabled flag it would have loaded before the step; an id without a persisted
\* settings entry is still registered as enabled.
C27_SetPriorityKeepsEnabled ==
    [][\A id \in ProviderIds : \A pr \in Priorities :
          set_priority(id, pr) =>
              /\ configs[id] # NoConfig => configs'[id].enabled = configs[id].enabled
              /\ EnabledOnRegister(settings', id) = EnabledOnRegister(settings, id)]_vars


(***************************************************************************)
(* update_setting (settings.rs): read the cached AppSettings, apply the    *)
(* closure to the copy, write the copy to settings.json and to the cache.  *)
(* No lock is held from the read to the writes.  The manager's setters run *)
(* on the thread of the scraper commands, one at a time under the write    *)
(* lock of the manager; the config commands run on another thread and take *)
(* no lock.                                                                *)
(***************************************************************************)
SettingProviders == {"p1", "p2"}

\* the setters of the manager, as calls of update_setting
ManagerOps ==
    {[name |-> "set_enabled", provider |-> id, enabled |-> b] :
        id \in SettingProviders, b \in BOOLEAN}
    \cup {[name |-> "set_priority", provider |-> id, priority |-> pr] :
             id \in SettingProviders, pr \in Priorities}

\* update_app_setting and save_scraper_config
ConfigOps ==
    {[name |-> "update_app_setting", key |-> k, value |-> "v1"] :
        k \in {"theme", "language", "other"}}
    \cup {[name |-> "save_scraper_config", provider |-> id, config |-> ScraperConfig(TRUE, 1)] :
             id \in SettingProviders}

OpsOf(t) == IF t = "manager" THEN ManagerOps ELSE ConfigOps

\* s.scrapers.entry(id).or_default()
entry_or_default(s, id) ==
    IF s.scrapers[id] # NoConfig THEN s.scrapers[id] ELSE ScraperConfigDefault

\* the closure each caller hands to update_setting, applied to s
Updated(op, s) ==
    CASE op.name = "set_enabled" ->
           [s EXCEPT !.scrapers[op.provider] =
               [entry_or_default(s, op.provider) EXCEPT !.enabled = op.enabled]]
      [] op.name = "set_priority" ->
           [s EXCEPT !.scrapers[op.provider] =
               [entry_or_default(s, op.provider) EXCEPT !.priority = op.priority]]
      [] op.name = "update_app_setting" ->
           IF op.key = "theme" THEN [s EXCEPT !.theme = op.value]
           ELSE IF op.key = "language" THEN [s EXCEPT !.language = op.value]
           ELSE s
      [] op.name = "save_scraper_config" -> [s EXCEPT !.scrapers[op.provider] = op.config]

\* let mut settings = get_settings(); updater(&mut settings);
get_settings(t, op) ==
    /\ updater[t].pc = "idle"
    /\ updater' = [updater EXCEPT ![t] = [pc |-> "updated", op |-> op,
                                           settings |-> Updated(op, SETTINGS)]]
    /\ UNCHANGED <<settings_json, SETTINGS>>
    /\ UNCHANGED <<regVars, opVars, pegVars, matchVars, rwlock, task>>

\* save_settings: fs::write(&path, content), the whole AppSettings
write_settings_json(t) ==
    /\ updater[t].pc = "updated"
    /\ settings_json' = updater[t].settings
    /\ updater' = [updater EXCEPT ![t].pc = "written"]
    /\ UNCHANGED SETTINGS
    /\ UNCHANGED <<regVars, opVars, pegVars, matchVars, rwlock, task>>

\* save_settings: *SETTINGS.write().unwrap() = Some(settings.clone())
write_SETTINGS(t) ==
    /\ updater[t].pc = "written"
    /\ SETTINGS' = updater[t].settings
    /\ updater' = [updater EXCEPT ![t].pc = "done"]
    /\ UNCHANGED settings_json
    /\ UNCHANGED <<regVars, opVars, pegVars, matchVars, rwlock, task>>

NextSettings ==
    \E t \in Updaters :
        \/ \E op \in OpsOf(t) : get_settings(t, op)
        \/ write_settings_json(t)
        \/ write_SETTINGS(t)

SpecSettings == Init /\ [][NextSettings]_vars

\* the settings hold what the call wrote
Reflects(s, op) ==
    CASE op.name = "set_enabled" ->
           s.scrapers[op.provider] # NoConfig /\ s.scrapers[op.provider].enabled = op.enabled
      [] op.name = "set_priority" ->
           s.scrapers[op.provider] # NoConfig
           /\ s.scrapers[op.provider].priority = op.priority
      [] op.name = "update_app_setting" ->
           /\ op.key = "theme" => s.theme = op.value
           /\ op.key = "language" => s.language = op.value
      [] op.name = "save_scraper_config" -> s.scrapers[op.provider] = op.config

\* the two calls are for different providers or for different settings fields
Independent(setter, other) ==
    other.name = "update_app_setting" \/ other.provider # setter.provider

BothDone == \A t \in Updaters : updater[t].pc = "done"

\* C29: when a set_enabled or set_priority call and an update_setting call of
\* the config commands, for a different provider or a different settings field,
\* have both completed, the settings in settings.json hold both updates, however
\* the two calls were interleaved.
C29_NoLostUpdate ==
    (BothDone /\ Independent(updater["manager"].op, updater["config"].op)) =>
        /\ Reflects(settings_json, updater["manager"].op)
        /\ Reflects(settings_json, updater["config"].op)


(***************************************************************************)
(* save_metadata_pegasus (persistence.rs): the game block of one ROM is    *)
(* written into metadata.txt, in place of the block that names the ROM's   *)
(* file when there is one, at the end of the text otherwise.  A file name  *)
(* is a sequence of characters, so that one name can be the beginning of   *)
(* another.                                                                *)
(***************************************************************************)
MaxSaves == 3

COMMA == ","
PERCENT == "%"

DigitTokens == <<"0", "1", "2", "3", "4", "5", "6", "7", "8", "9">>

RECURSIVE to_string(_)
\* the decimal digits of an i32 that is not negative
to_string(n) ==
    IF n < 10 THEN <<DigitTokens[n + 1]>>
    ELSE to_string(n \div 10) \o <<DigitTokens[(n % 10) + 1]>>

RECURSIVE join_str(_, _)
\* [String]::join with a separator of several characters
join_str(ss, sep) ==
    IF ss = <<>> THEN <<>>
    ELSE IF Len(ss) = 1 THEN ss[1]
    ELSE ss[1] \o sep \o join_str(Tail(ss), sep)

\* RomInfo: the file name and the system; the system names the metadata file
RomInputs == {[file |-> f, system |-> Word("sys")] : f \in {<<"a">>, <<"b">>, <<"a", "b">>}}

\* GameMetadata with the strings as texts and the rating as a fraction
SaveMetadataInputs ==
    {[name |-> Word("n1"), english_name |-> NoneOpt, description |-> NoneOpt,
      release_date |-> NoneOpt, developer |-> NoneOpt, publisher |-> NoneOpt,
      genres |-> <<>>, players |-> NoneOpt, rating |-> NoneOpt],
     [name |-> Word("n2"), english_name |-> Some(Word("e1")),
      description |-> Some(<<"t1", NL, "t2">>), release_date |-> NoneOpt,
      developer |-> Some(Word("d1")), publisher |-> NoneOpt,
      genres |-> <<Word("g1"), Word("g2")>>, players |-> NoneOpt,
      rating |-> Some(Frac(3, 4))],
     [name |-> Word("n1"), english_name |-> NoneOpt, description |-> NoneOpt,
      release_date |-> Some(Word("r1")), developer |-> Some(Word("d2")),
      publisher |-> Some(Word("p1")), genres |-> <<>>, players |-> Some(Word("2")),
      rating |-> NoneOpt]}

\* format!("file: {}", rom.file)
file_marker(rom) == <<"file", COLON, SP>> \o rom.file

\* the line of an optional field
OptionLine(key, o) == IF is_some(o) THEN KeyValueLine(key, unwrap(o)) ELSE <<>>

\* (r * 100.0) as i32
Percent(r) == (r[1] * 100) \div r[2]

\* the String built in lines 178-188
game_entry(rom, metadata) ==
    <<NL>> \o KeyValueLine("game", metadata.name)
    \o KeyValueLine("file", rom.file)
    \o OptionLine("x-english-name", metadata.english_name)
    \o (IF is_some(metadata.description)
        THEN KeyValueLine("description", replace(unwrap(metadata.description), NL, SP))
        ELSE <<>>)
    \o OptionLine("developer", metadata.developer)
    \o OptionLine("publisher", metadata.publisher)
    \o (IF metadata.genres # <<>>
        THEN KeyValueLine("genres", join_str(metadata.genres, <<COMMA, SP>>))
        ELSE <<>>)
    \o OptionLine("release", metadata.release_date)
    \o OptionLine("players", metadata.players)
    \o (IF is_some(metadata.rating)
        THEN KeyValueLine("rating", to_string(Percent(unwrap(metadata.rating)))
                                    \o <<PERCENT>>)
        ELSE <<>>)

\* line.starts_with("game:")
is_game_line(line) == starts_with(line, <<"game", COLON>>)

\* the block that reaches to the end of the text
block_end_at_eof(ls, start) == Len(ls) + 1

\* the index of the first line after `start` that starts with "game:", one
\* past the last line when there is none
block_end(ls, start) ==
    IF \E j \in (start + 1)..Len(ls) : is_game_line(ls[j])
    THEN CHOOSE j \in (start + 1)..Len(ls) :
             is_game_line(ls[j]) /\ \A k \in (start + 1)..(j - 1) : ~is_game_line(ls[k])
    ELSE Len(ls) + 1

\* the line `i` starts a game block with a line that is the marker (lines 199-208)
StartsTargetBlock(ls, i, marker) ==
    /\ is_game_line(ls[i])
    /\ \E j \in (i + 1)..(block_end(ls, i) - 1) : trim(ls[j]) = marker

\* target_start_idx: the first such line, 0 for None
target_start_idx(ls, marker) ==
    IF \E i \in DOMAIN ls : StartsTargetBlock(ls, i, marker)
    THEN CHOOSE i \in DOMAIN ls :
             /\ StartsTargetBlock(ls, i, marker)
             /\ \A k \in 1..(i - 1) : ~StartsTargetBlock(ls, k, marker)
    ELSE 0

\* the text save_metadata_pegasus writes, given the text it starts from
SavedContent(text, rom, metadata) ==
    LET marker == file_marker(rom)
        entry == game_entry(rom, metadata)
        ls == lines(text)
        start_idx == target_start_idx(ls, marker)
    IN IF contains(text, marker) /\ start_idx # 0
       THEN LET end == block_end(ls, start_idx)
                new_lines == SubSeq(ls, 1, start_idx - 1) \o <<trim(entry)>>
                             \o SubSeq(ls, end, Len(ls))
            IN join(new_lines, NL)
       ELSE text \o entry

save_metadata_pegasus(rom, metadata) ==
    /\ Len(saves) < MaxSaves
    /\ content' = SavedContent(IF exists THEN content
                               ELSE KeyValueLine("collection", rom.system),
                               rom, metadata)
    /\ exists' = TRUE
    /\ before' = [exists |-> exists, content |-> content]
    /\ saves' = Append(saves, [rom |-> rom, metadata |-> metadata])
    /\ UNCHANGED <<calls, exported, parseVars>>
    /\ UNCHANGED <<regVars, opVars, lockVars, matchVars>>

NextSave ==
    \E rom \in RomInputs : \E metadata \in SaveMetadataInputs :
        save_metadata_pegasus(rom, metadata)

SpecSave == Init /\ [][NextSave]_vars


(***************************************************************************)
(* Properties of save_metadata_pegasus.  The file is read back with the    *)
(* parser of the format.                                                   *)
(***************************************************************************)
\* the ROM file names saved so far
SavedFiles == {saves[i].rom.file : i \in DOMAIN saves}

\* the latest save for the ROM file f
LatestSave(f) ==
    saves[CHOOSE i \in DOMAIN saves :
              /\ saves[i].rom.file = f
              /\ \A j \in (i + 1)..Len(saves) : saves[j].rom.file # f]

\* the Game that holds the metadata of a save, as the parser gives it back
GameOfSave(save) ==
    LET m == save.metadata IN
    [PegasusGameDefault EXCEPT
        !.name = m.name,
        !.file = Some(save.rom.file),
        !.description = IF is_some(m.description)
                        THEN Some(replace(unwrap(m.description), NL, SP)) ELSE NoneOpt,
        !.developer = m.developer,
        !.publisher = m.publisher,
        !.genre = IF m.genres = <<>> THEN NoneOpt
                  ELSE Some(join_str(m.genres, <<COMMA, SP>>)),
        !.release = m.release_date,
        !.players = m.players,
        !.rating = IF is_some(m.rating)
                   THEN Some(to_string(Percent(unwrap(m.rating))) \o <<PERCENT>>)
                   ELSE NoneOpt,
        !.extra = IF is_some(m.english_name)
                  THEN insert(EmptyMap, Word("x-english-name"), unwrap(m.english_name))
                  ELSE EmptyMap]

\* the Games of the list that have the file f
WithFile(games, f) == {i \in DOMAIN games : games[i].file = Some(f)}

\* the lines of the text that start a game block / that are collection headers
GameLines(text) == SelectSeq(lines(text), is_game_line)

CollectionLines(text) ==
    SelectSeq(lines(text), LAMBDA line : starts_with(line, <<"collection", COLON>>))

\* the last save was for a ROM that had a block in the file
Resaved ==
    /\ Len(saves) >= 2
    /\ \E i \in 1..(Len(saves) - 1) : saves[i].rom.file = saves[Len(saves)].rom.file

====
